---- MODULE Spec2Model ----
(***************************************************************************)
(* Verification model of the RAG_CODE ingestion pipeline and crawler.      *)
(*                                                                         *)
(* Part I   (variables pipeVars): the /scrape handler of main.py, its      *)
(*          EmbedRunner consumer thread (run_embedding_queue), the corpus  *)
(*          file k.json (excel_handler.py), the last-id marker file        *)
(*          (generate_embeddings.py) and wait_for_embed_then_query.        *)
(* Part II  (variables lidVars): _update_last_id, statement by statement,  *)
(*          called from several threads.                                   *)
(* Part III (variables insVars): the retry loop of insert_chunks_to_db.    *)
(* Part IV  (variables normVars): the two normalize_url functions, on URLs *)
(*          written as sequences of string pieces.                         *)
(* Part V   (variables scoreVars): score_url_importance.                   *)
(* Part VI  (variables chunkVars): split_into_chunks.                      *)
(* Part VII (variables queryVars): process_query and                       *)
(*          filter_already_scraped.                                        *)
(* Part VIII (variables siteVars): one site traversal by                   *)
(*          crawl_website_bfs, crawl_website_dfs or                        *)
(*          crawl_website_priority, with extract_and_prioritize_links.     *)
(* Part IX  (variables extractVars): extract_and_prioritize_links on one   *)
(*          page.                                                          *)
(* Part X   (variables textVars): _create_text_chunks.                     *)
(* Part XI  (variables sectVars): _extract_content_sections.               *)
(* Part XII (variables entryVars): embed_single_entry and should_skip_text.*)
(* Part XIII (variables trigVars): trigger_query_controller.               *)
(* Part XIV (variables corpusVars): export_to_json and append_to_json on   *)
(*          lists of results.                                              *)
(* Part XV  (variables handlerVars): the /scrape handler up to the         *)
(*          construction of EnhancedQueryScraper.                          *)
(***************************************************************************)
EXTENDS Integers, Sequences, FiniteSets, TLC

VARIABLES
    \* ---- Part I: ingestion pipeline ----
    hpc,          \* per request: position of the /scrape handler
    work_queue,   \* per request: queue.Queue() of main.py:188
    nresults,     \* per request: len(successful), the results its crawl yielded
    nput,         \* per request: number of results put on work_queue so far
    cpc,          \* per request: position of the EmbedRunner thread
    cur,          \* per request: scraped_data (the item being processed)
    snap,         \* per request: existing_data as read by append_to_json
    website_id,   \* per request: website_id of main.py:88/95 (0 is None)
    counter,      \* per request: counter dict of main.py:143
    log,          \* per request: history, one record per processed item
    k_json,       \* the corpus file scraped_data/k.json
    last_id_file, \* content of scraped_data/last_embedd.txt, as _read_last_id reads it
    last_id0,     \* history: the marker before any request
    wpc,          \* per request: position of wait_for_embed_then_query
    elapsed,      \* per request: seconds spent in embed_thread.join(timeout=120)
    \* ---- Part II: _update_last_id ----
    lpc,          \* per thread: position inside _update_last_id
    new_id,       \* per thread: the argument new_id
    current,      \* per thread: the local current
    lock_owner,   \* _id_file_lock: the thread holding it, or NoThread
    id_file,      \* content of last_embedd.txt (Empty: missing or truncated)
    calls,        \* per thread: number of calls made so far
    high,         \* history: the largest id a finished write has stored
    \* ---- Part III: insert_chunks_to_db ----
    ipc,          \* position in insert_chunks_to_db
    chunk_idx,    \* index of the chunk being inserted
    attempt,      \* the loop variable attempt
    success,      \* the local success
    inserted,     \* the local inserted
    nchunks,      \* len(chunks)
    posts,        \* history: the responses to the POSTs of the current chunk
    given_up,     \* history: number of chunks left without a 201
    \* ---- Part IV: normalize_url ----
    n_url,        \* the two URLs handed to normalize_url
    n_rel,        \* how the second URL was derived from the first
    n_key,        \* EnhancedQueryScraper.normalize_url of each (<<>>: not yet called)
    n_hkey,       \* JSONHandler.normalize_url of each (<<>>: not yet called)
    \* ---- Part V: score_url_importance ----
    s_in,         \* two arguments [url, text] of score_url_importance
    s_out,        \* per argument: the returned score (-1: not yet called)
    \* ---- Part VI: split_into_chunks ----
    words,        \* len(words), the number of words of the text
    start,        \* the local start
    chunks,       \* the local chunks, each a slice <<first, end>> of words
    kpc,          \* position in split_into_chunks
    \* ---- Part VII: process_query ----
    qpc,             \* position in process_query
    max_websites,    \* the argument max_websites
    already_scraped, \* the argument already_scraped
    urls,            \* the local urls
    results,         \* the local results: [website_link, title] per scraped site
    search_result,   \* history: what search_duckduckgo returned
    crawled,         \* history: the URLs handed to scrape_website, in order
    search_raised,   \* history: the search stages that raised ("ddgs", "html")
    enqueued,        \* main.py: number of results put on work_queue by scrape
    consumer,        \* main.py: whether scrape started the EmbedRunner thread
    \* ---- Part VIII: site traversal ----
    tpc,           \* position in the crawl_website_* function
    strategy,      \* self.crawl_method
    max_pages,     \* the argument max_pages (Unlimited: float('inf'))
    start_url,     \* the argument start_url
    visited,       \* the set visited (normalized URLs)
    frontier,      \* queue (BFS) or priority_queue (priority): links [url, score, at, seq]
    stack,         \* DFS: the active calls, each with the links it has yet to follow
    scraped_pages, \* the list scraped_pages (the URL of each page)
    fetches,       \* history: every session.get issued, [url, ok, error, depth, score, at]
    discovered,    \* history: the links extract_and_prioritize_links returned, [url, depth]
    \* ---- Part IX: extract_and_prioritize_links ----
    xpc,           \* position in extract_and_prioritize_links
    x_url,         \* the argument url
    x_anchors,     \* the href of each anchor of soup, in document order
    x_links,       \* the returned list all_links
    \* ---- Part X: _create_text_chunks ----
    ppc,                \* position in _create_text_chunks
    sections,           \* the argument sections
    section_no,         \* number of sections the loop has taken
    text_chunks,        \* the local chunks, each the indices of its sections
    current_chunk,      \* the local current_chunk, as indices of sections
    current_word_count, \* the local current_word_count
    \* ---- Part XI: _extract_content_sections ----
    epc,             \* position in _extract_content_sections
    elements,        \* what element.find_all returns, in document order: [tag, size]
    element_no,      \* number of elements the loop has taken
    page_sections,   \* the local sections: [type, element, header]
    current_header,  \* the local current_header, as the index of its element (0 = None)
    \* ---- Part XII: embed_single_entry ----
    gpc,             \* position in embed_single_entry
    entry,           \* plain_text of the entry: [words, placeholder]
    entry_chunk,     \* number of chunks insert_chunks_to_db has gone through
    entry_posts,     \* history: POSTs issued to the insert API
    entry_inserted,  \* the local inserted of insert_chunks_to_db
    entry_result,    \* the value returned (-1 before the return)
    entry_marked,    \* history: _update_last_id was called
    \* ---- Part XIII: trigger_query_controller ----
    rpc,             \* position in trigger_query_controller
    t_attempt,       \* the loop variable attempt
    t_log,           \* history: the POSTs with their outcome and the sleeps with their length
    \* ---- Part XIV: the corpus file under lists of results ----
    corpus,          \* the corpus file: [exists, data], data a sequence of [url, id]
    corpus_prev,     \* history: the corpus file before the last call
    corpus_call,     \* history: the last call, [op, results]
    corpus_calls,    \* number of calls made
    \* ---- Part XV: the /scrape handler up to the scraper ----
    apc,             \* position in scrape
    a_query,         \* request.query, as a sequence of characters
    a_file,          \* whether k.json exists
    a_response,      \* the value returned ("none" before the return)
    a_reached        \* history: the stages of the handler that were reached

pipeVars == <<hpc, work_queue, nresults, nput, cpc, cur, snap, website_id, counter, log,
              k_json, last_id_file, last_id0, wpc, elapsed>>
lidVars == <<lpc, new_id, current, lock_owner, id_file, calls, high>>
insVars == <<ipc, chunk_idx, attempt, success, inserted, nchunks, posts, given_up>>
normVars == <<n_url, n_rel, n_key, n_hkey>>
scoreVars == <<s_in, s_out>>
chunkVars == <<words, start, chunks, kpc>>
queryVars == <<qpc, max_websites, already_scraped, urls, results, search_result, crawled,
               search_raised, enqueued, consumer>>
siteVars == <<tpc, strategy, max_pages, start_url, visited, frontier, stack, scraped_pages,
              fetches, discovered>>
extractVars == <<xpc, x_url, x_anchors, x_links>>
textVars == <<ppc, sections, section_no, text_chunks, current_chunk, current_word_count>>
crawlerVars == <<normVars, scoreVars, chunkVars, queryVars, siteVars, extractVars, textVars>>
sectVars == <<epc, elements, element_no, page_sections, current_header>>
entryVars == <<gpc, entry, entry_chunk, entry_posts, entry_inserted, entry_result, entry_marked>>
trigVars == <<rpc, t_attempt, t_log>>
corpusVars == <<corpus, corpus_prev, corpus_call, corpus_calls>>
handlerVars == <<apc, a_query, a_file, a_response, a_reached>>
auxVars == <<sectVars, entryVars, trigVars, corpusVars, handlerVars>>
vars == <<pipeVars, lidVars, insVars, crawlerVars, auxVars>>

(***************************************************************************)
(* Bounds of the model.                                                    *)
(***************************************************************************)
MaxItems == 2      \* results enqueued by one /scrape request
MaxChunks == 1     \* chunks of one embedded entry
MaxId == 3         \* identifiers passed to _update_last_id
MaxCalls == 2      \* calls of _update_last_id made by one thread
MaxInsChunks == 2  \* chunks handed to one insert_chunks_to_db call
TickSeconds == 120 \* granularity of the join clock

Requests == 1..2

(***************************************************************************)
(* Program constants.                                                      *)
(***************************************************************************)
JOIN_TIMEOUT == 120
CHUNK_INSERT_RETRIES == 2

Max(S) == CHOOSE x \in S : \A y \in S : y <= x
Last(q) == q[Len(q)]

(***************************************************************************)
(* URLs of the pipeline part: a site, whether the host carries "www." and  *)
(* whether the URL ends in "/".                                            *)
(***************************************************************************)
Url(s, w, t) == [site |-> s, www |-> w, slash |-> t]
NoUrl == Url("", FALSE, FALSE)
\* The links of the results: "http://a.com/", "http://www.a.com", "http://b.com"
URLS == {Url("a", FALSE, TRUE), Url("a", TRUE, FALSE), Url("b", FALSE, FALSE)}

\* JSONHandler.normalize_url on these URLs: drops the trailing slash and "www."
HandlerNormalize(u) == [u EXCEPT !.www = FALSE, !.slash = FALSE]

\* str.rstrip("/")
RStripSlash(u) == [u EXCEPT !.slash = FALSE]

\* A queued result: its website_link and its put number (1, 2, ...)
Sentinel == [url |-> NoUrl, n |-> 0]
NoItem == [url |-> NoUrl, n |-> -1]
NoFile == [exists |-> FALSE, data |-> <<>>]
File(d) == [exists |-> TRUE, data |-> d]
ZeroCounter == [saved |-> 0, failed |-> 0, chunks |-> 0]

(***************************************************************************)
(* The corpus file: JSONHandler.export_to_json / append_to_json and        *)
(* _get_entry_id, on a list of entries [url, id].                          *)
(***************************************************************************)
MaxIdOf(data) == Max({0} \cup {data[i].id : i \in 1..Len(data)})

\* append_to_json, lines 349-397, for new_results = [one result with this url]
AppendToJson(data, url) ==
    LET existing_urls == {HandlerNormalize(data[i].url) : i \in 1..Len(data)}
    IN  IF HandlerNormalize(url) \in existing_urls
        THEN data
        ELSE Append(data, [url |-> url, id |-> MaxIdOf(data) + 1])

\* export_to_json on a missing file, lines 266-307: entries numbered from 1
ExportToJson(url) == <<[url |-> url, id |-> 1]>>

\* What the save step writes to k.json from what it read (main.py:90-93)
SavedData(read, url) ==
    IF read.exists THEN AppendToJson(read.data, url) ELSE ExportToJson(url)

\* _get_entry_id: the id of the last entry whose link equals url up to a
\* trailing slash; 0 stands for None
GetEntryId(file, url) ==
    LET hits == {i \in 1..Len(file.data) :
                    RStripSlash(file.data[i].url) = RStripSlash(url)}
    IN  IF file.exists /\ hits # {} THEN file.data[Max(hits)].id ELSE 0

\* _update_last_id between taking and releasing _id_file_lock (Part II
\* models its statements one by one)
\* generate_embeddings.py:224, if new_id > current
ShouldWriteAlways(new, stored) == TRUE
ShouldWrite(new, stored) == new > stored

UpdateLastIdUnguarded(stored, id) == id
UpdateLastId(stored, id) == IF ShouldWrite(id, stored) THEN id ELSE stored

\* queue.Queue.get: the position of the element handed out
QueueGetIndexLifo(q) == Len(q)
QueueGetIndex(q) == 1

RemoveAt(q, i) == SubSeq(q, 1, i - 1) \o SubSeq(q, i + 1, Len(q))

\* History of one processed item: its put number n, the website_id found for
\* it (0 is None), how its iteration ended, and its chunks
LogEntry(it, wid, outcome, n, k) ==
    [n |-> it.n, wid |-> wid, outcome |-> outcome, nchunks |-> n, inserted |-> k]

Bump(c, field, by) == [c EXCEPT ![field] = @ + by]

(***************************************************************************)
(* Part I: initial state.                                                  *)
(***************************************************************************)
\* The threads that call _update_last_id: the EmbedRunner (through
\* embed_single_entry) and a thread running run_embedding
LThreads == {"EmbedRunner", "run_embedding"}
NoThread == "none"
Empty == -1

IdleLid ==
    /\ lpc = [t \in LThreads |-> "off"]
    /\ new_id = [t \in LThreads |-> 0]
    /\ current = [t \in LThreads |-> 0]
    /\ lock_owner = NoThread
    /\ id_file = Empty
    /\ calls = [t \in LThreads |-> 0]
    /\ high = 0

IdleIns ==
    /\ ipc = "off"
    /\ chunk_idx = 0
    /\ attempt = 0
    /\ success = FALSE
    /\ inserted = 0
    /\ nchunks = 0
    /\ posts = <<>>
    /\ given_up = 0

IdleNorm ==
    /\ n_url = <<>>
    /\ n_rel = "none"
    /\ n_key = <<>>
    /\ n_hkey = <<>>

IdleScore ==
    /\ s_in = <<>>
    /\ s_out = <<-1, -1>>

IdleChunk ==
    /\ words = 0
    /\ start = 0
    /\ chunks = <<>>
    /\ kpc = "off"

IdleQuery ==
    /\ qpc = "off"
    /\ max_websites = 0
    /\ already_scraped = {}
    /\ urls = <<>>
    /\ results = <<>>
    /\ search_result = <<>>
    /\ crawled = <<>>
    /\ search_raised = {}
    /\ enqueued = 0
    /\ consumer = FALSE

IdleSite ==
    /\ tpc = "off"
    /\ strategy = "none"
    /\ max_pages = 0
    /\ start_url = <<>>
    /\ visited = {}
    /\ frontier = <<>>
    /\ stack = <<>>
    /\ scraped_pages = <<>>
    /\ fetches = <<>>
    /\ discovered = {}

IdleExtract ==
    /\ xpc = "off"
    /\ x_url = <<>>
    /\ x_anchors = <<>>
    /\ x_links = <<>>

IdleText ==
    /\ ppc = "off"
    /\ sections = <<>>
    /\ section_no = 0
    /\ text_chunks = <<>>
    /\ current_chunk = <<>>
    /\ current_word_count = 0

IdleCrawler ==
    IdleNorm /\ IdleScore /\ IdleChunk /\ IdleQuery /\ IdleSite /\ IdleExtract /\ IdleText

IdleSect ==
    /\ epc = "off"
    /\ elements = <<>>
    /\ element_no = 0
    /\ page_sections = <<>>
    /\ current_header = 0

IdleEntry ==
    /\ gpc = "off"
    /\ entry = [words |-> 0, placeholder |-> FALSE]
    /\ entry_chunk = 0
    /\ entry_posts = 0
    /\ entry_inserted = 0
    /\ entry_result = -1
    /\ entry_marked = FALSE

IdleTrig ==
    /\ rpc = "off"
    /\ t_attempt = 0
    /\ t_log = <<>>

IdleCorpus ==
    /\ corpus = [exists |-> FALSE, data |-> <<>>]
    /\ corpus_prev = [exists |-> FALSE, data |-> <<>>]
    /\ corpus_call = [op |-> "none", results |-> <<>>]
    /\ corpus_calls = 0

IdleHandler ==
    /\ apc = "off"
    /\ a_query = <<>>
    /\ a_file = FALSE
    /\ a_response = "none"
    /\ a_reached = {}

IdleAux == IdleSect /\ IdleEntry /\ IdleTrig /\ IdleCorpus /\ IdleHandler

InitPipeline(counts) ==
    /\ nresults \in counts
    /\ hpc = [r \in Requests |-> "idle"]
    /\ work_queue = [r \in Requests |-> <<>>]
    /\ nput = [r \in Requests |-> 0]
    /\ cpc = [r \in Requests |-> "unstarted"]
    /\ cur = [r \in Requests |-> NoItem]
    /\ snap = [r \in Requests |-> NoFile]
    /\ website_id = [r \in Requests |-> 0]
    /\ counter = [r \in Requests |-> ZeroCounter]
    /\ log = [r \in Requests |-> <<>>]
    /\ \/ k_json = NoFile /\ last_id_file = 0
       \/ /\ k_json = File(<<[url |-> Url("a", FALSE, FALSE), id |-> 1]>>)
          /\ last_id_file = 1
    /\ last_id0 = last_id_file
    /\ wpc = [r \in Requests |-> "none"]
    /\ elapsed = [r \in Requests |-> 0]
    /\ IdleLid
    /\ IdleIns
    /\ IdleCrawler
    /\ IdleAux

IdlePipeline ==
    /\ nresults = [r \in Requests |-> 0]
    /\ hpc = [r \in Requests |-> "idle"]
    /\ work_queue = [r \in Requests |-> <<>>]
    /\ nput = [r \in Requests |-> 0]
    /\ cpc = [r \in Requests |-> "unstarted"]
    /\ cur = [r \in Requests |-> NoItem]
    /\ snap = [r \in Requests |-> NoFile]
    /\ website_id = [r \in Requests |-> 0]
    /\ counter = [r \in Requests |-> ZeroCounter]
    /\ log = [r \in Requests |-> <<>>]
    /\ k_json = NoFile
    /\ last_id_file = 0
    /\ last_id0 = 0
    /\ wpc = [r \in Requests |-> "none"]
    /\ elapsed = [r \in Requests |-> 0]

\* One /scrape request whose crawl yielded 1..MaxItems usable results
Init == InitPipeline({f \in [Requests -> 0..MaxItems] : f[1] >= 1 /\ f[2] = 0})

\* Two /scrape requests, the second arriving while the first one's EmbedRunner
\* is still at work, each with one usable result
InitOverlap == InitPipeline({[r \in Requests |-> 1]})

(***************************************************************************)
(* The /scrape handler, main.py:187-205.  A handler runs on the event loop *)
(* without awaiting, so handlers of different requests do not interleave;  *)
(* the EmbedRunner threads they start run concurrently with everything.    *)
(***************************************************************************)
\* main.py:180-195: a request without usable results starts no thread
StartThread(r) ==
    /\ hpc[r] = "idle"
    /\ nresults[r] >= 1
    /\ \A q \in Requests : q < r => hpc[q] = "returned"
    /\ hpc' = [hpc EXCEPT ![r] = "putting"]
    /\ cpc' = [cpc EXCEPT ![r] = "get"]
    /\ UNCHANGED <<work_queue, nresults, nput, cur, snap, website_id, counter, log, k_json,
                   last_id_file, last_id0, wpc, elapsed>>
    /\ UNCHANGED <<lidVars, insVars, crawlerVars, auxVars>>

\* main.py:198-199, one iteration
Put(r) ==
    /\ hpc[r] = "putting"
    /\ nput[r] < nresults[r]
    /\ \E u \in URLS :
          work_queue' = [work_queue EXCEPT ![r] = Append(@, [url |-> u, n |-> nput[r] + 1])]
    /\ nput' = [nput EXCEPT ![r] = @ + 1]
    /\ UNCHANGED <<hpc, nresults, cpc, cur, snap, website_id, counter, log, k_json,
                   last_id_file, last_id0, wpc, elapsed>>
    /\ UNCHANGED <<lidVars, insVars, crawlerVars, auxVars>>

\* The sentinel put inside the loop, after the first result
PutSentinelInLoop(r) ==
    /\ hpc[r] = "putting"
    /\ nput[r] >= 1
    /\ work_queue' = [work_queue EXCEPT ![r] = Append(@, Sentinel)]
    /\ hpc' = [hpc EXCEPT ![r] = "closed"]
    /\ UNCHANGED <<nresults, nput, cpc, cur, snap, website_id, counter, log, k_json,
                   last_id_file, last_id0, wpc, elapsed>>
    /\ UNCHANGED <<lidVars, insVars, crawlerVars, auxVars>>

\* main.py:200, after the loop
PutSentinel(r) ==
    /\ hpc[r] = "putting"
    /\ nput[r] = nresults[r]
    /\ work_queue' = [work_queue EXCEPT ![r] = Append(@, Sentinel)]
    /\ hpc' = [hpc EXCEPT ![r] = "closed"]
    /\ UNCHANGED <<nresults, nput, cpc, cur, snap, website_id, counter, log, k_json,
                   last_id_file, last_id0, wpc, elapsed>>
    /\ UNCHANGED <<lidVars, insVars, crawlerVars, auxVars>>

\* main.py:203-212: the waiting task is created and the handler returns
CreateTask(r) ==
    /\ hpc[r] = "closed"
    /\ hpc' = [hpc EXCEPT ![r] = "returned"]
    /\ wpc' = [wpc EXCEPT ![r] = "joining"]
    /\ UNCHANGED <<work_queue, nresults, nput, cpc, cur, snap, website_id, counter, log,
                   k_json, last_id_file, last_id0, elapsed>>
    /\ UNCHANGED <<lidVars, insVars, crawlerVars, auxVars>>

(***************************************************************************)
(* run_embedding_queue, main.py:66-120.                                    *)
(***************************************************************************)
\* The end of one loop iteration: counters, history, task_done, next get
Finish(r, field, outcome, n, k) ==
    /\ counter' = [counter EXCEPT ![r] = Bump(Bump(@, field, 1), "chunks", k)]
    /\ log' = [log EXCEPT ![r] = Append(@, LogEntry(cur[r], website_id[r], outcome, n, k))]
    /\ cur' = [cur EXCEPT ![r] = NoItem]
    /\ snap' = [snap EXCEPT ![r] = NoFile]
    /\ website_id' = [website_id EXCEPT ![r] = 0]
    /\ cpc' = [cpc EXCEPT ![r] = "get"]

\* main.py:78-81 and 83-88
Get(r) ==
    /\ cpc[r] = "get"
    /\ work_queue[r] # <<>>
    /\ LET i == QueueGetIndex(work_queue[r])
           scraped_data == work_queue[r][i]
       IN  /\ work_queue' = [work_queue EXCEPT ![r] = RemoveAt(@, i)]
           /\ IF scraped_data = Sentinel
              THEN cpc' = [cpc EXCEPT ![r] = "exited"] /\ cur' = cur
              ELSE /\ cpc' = [cpc EXCEPT ![r] = "save"]
                   /\ cur' = [cur EXCEPT ![r] = scraped_data]
    /\ UNCHANGED <<hpc, nresults, nput, snap, website_id, counter, log, k_json,
                   last_id_file, last_id0, wpc, elapsed>>
    /\ UNCHANGED <<lidVars, insVars, crawlerVars, auxVars>>

\* The except block without its continue: the iteration goes on to the
\* website_id test, finds None and counts the item a second time
SaveRaiseNoContinue(r) ==
    /\ cpc[r] = "save"
    /\ counter' = [counter EXCEPT ![r] = Bump(@, "failed", 2)]
    /\ log' = [log EXCEPT ![r] = Append(@, LogEntry(cur[r], 0, "save_raise", 0, 0))]
    /\ cur' = [cur EXCEPT ![r] = NoItem]
    /\ cpc' = [cpc EXCEPT ![r] = "get"]
    /\ UNCHANGED <<snap, website_id>>
    /\ UNCHANGED <<hpc, work_queue, nresults, nput, k_json, last_id_file, last_id0, wpc, elapsed>>
    /\ UNCHANGED <<lidVars, insVars, crawlerVars, auxVars>>

\* main.py:97-101: the save step raises
SaveRaise(r) ==
    /\ cpc[r] = "save"
    /\ Finish(r, "failed", "save_raise", 0, 0)
    /\ UNCHANGED <<hpc, work_queue, nresults, nput, k_json, last_id_file, last_id0, wpc, elapsed>>
    /\ UNCHANGED <<lidVars, insVars, crawlerVars, auxVars>>

\* main.py:90 and excel_handler.py:334-341: the file is looked up and read
SaveRead(r) ==
    /\ cpc[r] = "save"
    /\ snap' = [snap EXCEPT ![r] = k_json]
    /\ cpc' = [cpc EXCEPT ![r] = "write"]
    /\ UNCHANGED <<hpc, work_queue, nresults, nput, cur, website_id, counter, log, k_json,
                   last_id_file, last_id0, wpc, elapsed>>
    /\ UNCHANGED <<lidVars, insVars, crawlerVars, auxVars>>

\* excel_handler.py:413-415: reading k.json fails inside append_to_json, the
\* result goes to a fallback file and k.json is left as it is
SaveReadFail(r) ==
    /\ cpc[r] = "save"
    /\ k_json.exists
    /\ cpc' = [cpc EXCEPT ![r] = "getid"]
    /\ UNCHANGED <<hpc, work_queue, nresults, nput, cur, snap, website_id, counter, log, k_json,
                   last_id_file, last_id0, wpc, elapsed>>
    /\ UNCHANGED <<lidVars, insVars, crawlerVars, auxVars>>

\* excel_handler.py:399-401 (or 305-307): the whole file is written back
SaveWrite(r) ==
    /\ cpc[r] = "write"
    /\ k_json' = File(SavedData(snap[r], cur[r].url))
    /\ cpc' = [cpc EXCEPT ![r] = "getid"]
    /\ UNCHANGED <<hpc, work_queue, nresults, nput, cur, snap, website_id, counter, log,
                   last_id_file, last_id0, wpc, elapsed>>
    /\ UNCHANGED <<lidVars, insVars, crawlerVars, auxVars>>

\* main.py:95 and 104, 115-117
GetId(r) ==
    /\ cpc[r] = "getid"
    /\ LET wid == GetEntryId(k_json, cur[r].url)
       IN  IF wid # 0
           THEN /\ website_id' = [website_id EXCEPT ![r] = wid]
                /\ cpc' = [cpc EXCEPT ![r] = "embed"]
                /\ UNCHANGED <<cur, snap, counter, log>>
           ELSE Finish(r, "failed", "no_id", 0, 0)
    /\ UNCHANGED <<hpc, work_queue, nresults, nput, k_json, last_id_file, last_id0, wpc, elapsed>>
    /\ UNCHANGED <<lidVars, insVars, crawlerVars, auxVars>>

\* main.py:106-109 with generate_embeddings.py:200-202: the text is skipped
EmbedSkip(r) ==
    /\ cpc[r] = "embed"
    /\ Finish(r, "saved", "skipped", 0, 0)
    /\ UNCHANGED <<hpc, work_queue, nresults, nput, k_json, last_id_file, last_id0, wpc, elapsed>>
    /\ UNCHANGED <<lidVars, insVars, crawlerVars, auxVars>>

\* main.py:106-109 with generate_embeddings.py:208-217: n chunks, k of them
\* inserted, the others permanently failed
EmbedInsert(r) ==
    /\ cpc[r] = "embed"
    /\ \E n \in 1..MaxChunks : \E k \in 0..n :
          Finish(r, "saved", "embedded", n, k)
    /\ last_id_file' = UpdateLastId(last_id_file, website_id[r])
    /\ UNCHANGED <<hpc, work_queue, nresults, nput, k_json, last_id0, wpc, elapsed>>
    /\ UNCHANGED <<lidVars, insVars, crawlerVars, auxVars>>

\* main.py:110-114: embed_single_entry raises (before it reaches
\* _update_last_id) and the item is counted as failed
EmbedRaise(r) ==
    /\ cpc[r] = "embed"
    /\ Finish(r, "failed", "embed_raise", 0, 0)
    /\ UNCHANGED <<hpc, work_queue, nresults, nput, k_json, last_id_file, last_id0, wpc, elapsed>>
    /\ UNCHANGED <<lidVars, insVars, crawlerVars, auxVars>>

\* embed_single_entry never returns (a call of the embedding step that hangs)
EmbedHang(r) ==
    /\ cpc[r] = "embed"
    /\ cpc' = [cpc EXCEPT ![r] = "hung"]
    /\ UNCHANGED <<hpc, work_queue, nresults, nput, cur, snap, website_id, counter, log, k_json,
                   last_id_file, last_id0, wpc, elapsed>>
    /\ UNCHANGED <<lidVars, insVars, crawlerVars, auxVars>>

(***************************************************************************)
(* wait_for_embed_then_query, main.py:266-295.                             *)
(***************************************************************************)
\* Time passes while join_with_timeout waits in embed_thread.join(timeout=120)
TickJoin(r) ==
    /\ wpc[r] = "joining"
    /\ elapsed[r] < JOIN_TIMEOUT
    /\ elapsed' = [elapsed EXCEPT ![r] = @ + TickSeconds]
    /\ UNCHANGED <<hpc, work_queue, nresults, nput, cpc, cur, snap, website_id, counter, log,
                   k_json, last_id_file, last_id0, wpc>>
    /\ UNCHANGED <<lidVars, insVars, crawlerVars, auxVars>>

\* embed_thread.join(timeout=120) returns: the thread ended or the time is up
JoinMayReturnNoTimeout(r) == cpc[r] = "exited"
JoinMayReturnAtOnce(r) == TRUE
JoinMayReturn(r) == cpc[r] = "exited" \/ elapsed[r] >= JOIN_TIMEOUT

\* main.py:273-278
JoinReturn(r) ==
    /\ wpc[r] = "joining"
    /\ JoinMayReturn(r)
    /\ wpc' = [wpc EXCEPT ![r] = "joined"]
    /\ UNCHANGED <<hpc, work_queue, nresults, nput, cpc, cur, snap, website_id, counter, log,
                   k_json, last_id_file, last_id0, elapsed>>
    /\ UNCHANGED <<lidVars, insVars, crawlerVars, auxVars>>

\* main.py:280-295: the counters are read and the notification is decided
AfterJoin(r) ==
    /\ wpc[r] = "joined"
    /\ wpc' = [wpc EXCEPT ![r] =
                  IF counter[r].saved > 0 \/ counter[r].failed > 0
                  THEN "notify" ELSE "no_notify"]
    /\ UNCHANGED <<hpc, work_queue, nresults, nput, cpc, cur, snap, website_id, counter, log,
                   k_json, last_id_file, last_id0, elapsed>>
    /\ UNCHANGED <<lidVars, insVars, crawlerVars, auxVars>>

Handler(r) == StartThread(r) \/ Put(r) \/ PutSentinel(r) \/ CreateTask(r)

\* The steps of the EmbedRunner thread that return control to it
Consumer(r) ==
    \/ Get(r) \/ SaveRaise(r) \/ SaveRead(r) \/ SaveReadFail(r) \/ SaveWrite(r)
    \/ GetId(r) \/ EmbedSkip(r) \/ EmbedInsert(r) \/ EmbedRaise(r)

Waiter(r) == TickJoin(r) \/ JoinReturn(r) \/ AfterJoin(r)

Next ==
    \E r \in Requests :
        \/ StartThread(r) \/ Put(r) \/ PutSentinel(r) \/ CreateTask(r)
        \/ Get(r) \/ SaveRaise(r) \/ SaveRead(r) \/ SaveReadFail(r) \/ SaveWrite(r)
        \/ GetId(r) \/ EmbedSkip(r) \/ EmbedInsert(r) \/ EmbedRaise(r) \/ EmbedHang(r)
        \/ TickJoin(r) \/ JoinReturn(r) \/ AfterJoin(r)

Spec == Init /\ [][Next]_vars

SpecOverlap == InitOverlap /\ [][Next]_vars

\* Scheduling: the event loop runs a ready handler or task, the operating
\* system runs a ready thread, and time passes.  A hanging embedding call
\* (EmbedHang) is not something any scheduler promises to avoid or to take.
Progress == \E r \in Requests : Handler(r) \/ Consumer(r) \/ Waiter(r)

Fairness == WF_vars(Progress)

FairSpec == Init /\ [][Next]_vars /\ Fairness

(***************************************************************************)
(* Part II: _update_last_id and _read_last_id, generate_embeddings.py      *)
(* 220-237, one statement at a time, called from several threads.          *)
(***************************************************************************)
\* _read_last_id: a missing or empty file, or one that does not parse, reads 0
ReadLastId(content) == IF content = Empty THEN 0 ELSE content

\* with _id_file_lock: the lock can be taken when nobody holds it
LockFreeAlways(t) == TRUE
LockFree(t) == lock_owner = NoThread

InitLid ==
    /\ lpc = [t \in LThreads |-> "idle"]
    /\ new_id = [t \in LThreads |-> 0]
    /\ current = [t \in LThreads |-> 0]
    /\ lock_owner = NoThread
    /\ id_file \in {Empty} \cup 1..MaxId
    /\ calls = [t \in LThreads |-> 0]
    /\ high = ReadLastId(id_file)
    /\ IdlePipeline
    /\ IdleIns
    /\ IdleCrawler
    /\ IdleAux

\* A thread calls _update_last_id(new_id)
CallUpdate(t) ==
    /\ lpc[t] = "idle"
    /\ calls[t] < MaxCalls
    /\ \E id \in 1..MaxId : new_id' = [new_id EXCEPT ![t] = id]
    /\ calls' = [calls EXCEPT ![t] = @ + 1]
    /\ lpc' = [lpc EXCEPT ![t] = "acquire"]
    /\ UNCHANGED <<current, lock_owner, id_file, high>>
    /\ UNCHANGED <<pipeVars, insVars, crawlerVars, auxVars>>

\* generate_embeddings.py:222
AcquireLock(t) ==
    /\ lpc[t] = "acquire"
    /\ LockFree(t)
    /\ lock_owner' = t
    /\ lpc' = [lpc EXCEPT ![t] = "read"]
    /\ UNCHANGED <<new_id, current, id_file, calls, high>>
    /\ UNCHANGED <<pipeVars, insVars, crawlerVars, auxVars>>

\* generate_embeddings.py:223
ReadCurrent(t) ==
    /\ lpc[t] = "read"
    /\ current' = [current EXCEPT ![t] = ReadLastId(id_file)]
    /\ lpc' = [lpc EXCEPT ![t] = "compare"]
    /\ UNCHANGED <<new_id, lock_owner, id_file, calls, high>>
    /\ UNCHANGED <<pipeVars, insVars, crawlerVars, auxVars>>

\* generate_embeddings.py:224-225: the test, and open(LAST_ID_FILE, "w"),
\* which empties the file
Compare(t) ==
    /\ lpc[t] = "compare"
    /\ IF ShouldWrite(new_id[t], current[t])
       THEN id_file' = Empty /\ lpc' = [lpc EXCEPT ![t] = "write"]
       ELSE id_file' = id_file /\ lpc' = [lpc EXCEPT ![t] = "release"]
    /\ UNCHANGED <<new_id, current, lock_owner, calls, high>>
    /\ UNCHANGED <<pipeVars, insVars, crawlerVars, auxVars>>

\* generate_embeddings.py:226: the new id is written and the file closed
WriteId(t) ==
    /\ lpc[t] = "write"
    /\ id_file' = new_id[t]
    /\ high' = IF new_id[t] > high THEN new_id[t] ELSE high
    /\ lpc' = [lpc EXCEPT ![t] = "release"]
    /\ UNCHANGED <<new_id, current, lock_owner, calls>>
    /\ UNCHANGED <<pipeVars, insVars, crawlerVars, auxVars>>

\* the end of the with block
ReleaseLock(t) ==
    /\ lpc[t] = "release"
    /\ lock_owner' = IF lock_owner = t THEN NoThread ELSE lock_owner
    /\ lpc' = [lpc EXCEPT ![t] = "idle"]
    /\ UNCHANGED <<new_id, current, id_file, calls, high>>
    /\ UNCHANGED <<pipeVars, insVars, crawlerVars, auxVars>>

NextLid ==
    \E t \in LThreads :
        \/ CallUpdate(t) \/ AcquireLock(t) \/ ReadCurrent(t)
        \/ Compare(t) \/ WriteId(t) \/ ReleaseLock(t)

SpecLastId == InitLid /\ [][NextLid]_vars

\* C8: the marker never decreases under any interleaving of _update_last_id
\* calls: whenever no write is in progress the file holds the largest id ever
\* stored; and a call with an id that is not above the stored value leaves the
\* file untouched.
C8_MarkerMonotonic ==
    /\ []((\A t \in LThreads : lpc[t] # "write") => ReadLastId(id_file) = high)
    /\ [][\A t \in LThreads :
            (lpc[t] \in {"read", "compare"} /\ new_id[t] <= ReadLastId(id_file)) =>
                id_file' = id_file]_vars

C8_Witness ==
    /\ calls["EmbedRunner"] = 2 /\ calls["run_embedding"] = 1
    /\ lpc["EmbedRunner"] = "release" /\ new_id["EmbedRunner"] = 2 /\ current["EmbedRunner"] = 3
    /\ lpc["run_embedding"] = "acquire" /\ new_id["run_embedding"] = 1
    /\ id_file = 3

(***************************************************************************)
(* Part III: insert_chunks_to_db, generate_embeddings.py:108-173, against  *)
(* a storage collaborator that may answer each POST in any way.            *)
(***************************************************************************)
\* What requests.post can do: an HTTP status, requests.exceptions.Timeout,
\* or another exception (a refused connection, for instance)
TIMEOUT == 0
REQUEST_ERROR == -1
Responses == {201, 200, 400, 404, 500, 503, TIMEOUT, REQUEST_ERROR}

IsStatus(resp) == resp > 0

\* range(1, CHUNK_INSERT_RETRIES + 2): the last value of attempt
LastAttemptShort == CHUNK_INSERT_RETRIES
LastAttempt == CHUNK_INSERT_RETRIES + 1

\* Lines 141-167: after this response the for loop goes on to its next
\* attempt (if there is one) instead of leaving through a break
LoopsOnAnyFailure(resp) == resp # 201
LoopsOn(resp) == ~IsStatus(resp) \/ resp >= 500

InitIns ==
    /\ ipc = "for_chunk"
    /\ chunk_idx = 0
    /\ attempt = 0
    /\ success = FALSE
    /\ inserted = 0
    /\ nchunks \in 1..MaxInsChunks
    /\ posts = <<>>
    /\ given_up = 0
    /\ IdlePipeline
    /\ IdleLid
    /\ IdleCrawler
    /\ IdleAux

\* Lines 120-134: the next chunk, or the return after the last one
ForChunk ==
    /\ ipc = "for_chunk"
    /\ IF chunk_idx < nchunks
       THEN /\ chunk_idx' = chunk_idx + 1
            /\ attempt' = 1
            /\ success' = FALSE
            /\ posts' = <<>>
            /\ ipc' = "post"
       ELSE /\ ipc' = "returned"
            /\ UNCHANGED <<chunk_idx, attempt, success, posts>>
    /\ UNCHANGED <<inserted, nchunks, given_up>>
    /\ UNCHANGED <<pipeVars, lidVars, crawlerVars, auxVars>>

\* Lines 135-167: one requests.post and what the loop does with its outcome
Post ==
    /\ ipc = "post"
    /\ \E resp \in Responses :
          /\ posts' = Append(posts, resp)
          /\ IF resp = 201
             THEN /\ inserted' = inserted + 1
                  /\ success' = TRUE
                  /\ ipc' = "end_chunk"
                  /\ attempt' = attempt
             ELSE /\ UNCHANGED <<inserted, success>>
                  /\ IF LoopsOn(resp) /\ attempt < LastAttempt
                     THEN attempt' = attempt + 1 /\ ipc' = "post"
                     ELSE attempt' = attempt /\ ipc' = "end_chunk"
    /\ UNCHANGED <<chunk_idx, nchunks, given_up>>
    /\ UNCHANGED <<pipeVars, lidVars, crawlerVars, auxVars>>

\* Lines 169-171
EndChunk ==
    /\ ipc = "end_chunk"
    /\ given_up' = IF success THEN given_up ELSE given_up + 1
    /\ ipc' = "for_chunk"
    /\ UNCHANGED <<chunk_idx, attempt, success, inserted, nchunks, posts>>
    /\ UNCHANGED <<pipeVars, lidVars, crawlerVars, auxVars>>

NextIns == ForChunk \/ Post \/ EndChunk

SpecInsert == InitIns /\ [][NextIns]_vars

\* The responses of the current chunk that were followed by another POST
Retried == {posts[i] : i \in 1..(Len(posts) - 1)} \cup
           (IF ipc = "post" /\ posts # <<>> THEN {Last(posts)} ELSE {})

\* C5 as stated: a POST is repeated only after a 5xx response or a timeout.
C5_RetryOnlyOn5xxOrTimeout ==
    \A resp \in Retried : resp >= 500 \/ resp = TIMEOUT

\* C5 as amended: a POST is repeated only after a 5xx response, a timeout or
\* another request exception, at most 2 more times; a chunk answered 503, 503,
\* 201 gets exactly 3 POSTs and is counted once; no chunk gets more than 3
\* POSTs and none after a 201.
C5_RetryPolicy ==
    /\ [](/\ \A resp \in Retried : resp >= 500 \/ resp \in {TIMEOUT, REQUEST_ERROR}
          /\ Len(posts) <= 3
          /\ posts = <<503, 503>> => ipc = "post"
          /\ posts = <<503, 503, 201>> => ipc # "post" /\ success
          /\ inserted + given_up = (IF ipc \in {"post", "end_chunk"}
                                    THEN chunk_idx - 1 ELSE chunk_idx) + 
                                   (IF ipc = "end_chunk" /\ success THEN 1 ELSE 0))
    /\ [][inserted' = IF Len(posts') = Len(posts) + 1 /\ Last(posts') = 201
                      THEN inserted + 1 ELSE inserted]_vars

C5_Witness ==
    /\ posts = <<503, 503, 201>>
    /\ chunk_idx = 2
    /\ ipc = "for_chunk"
    /\ inserted = 1
    /\ given_up = 1

\* C6: a chunk whose POST is answered with a 4xx status gets no further POST,
\* is given up and is not counted; with a collaborator that answers every POST
\* with a 4xx status the call returns 0.
C6_ClientErrorNotRetried ==
    /\ []((posts # <<>> /\ posts[1] \in {400, 404}) =>
              /\ Len(posts) = 1
              /\ ipc # "post"
              /\ ~success)
    /\ [][(Len(posts') = Len(posts) + 1 /\ Last(posts') \in {400, 404}) =>
              inserted' = inserted /\ ipc' = "end_chunk"]_vars
    /\ []((ipc = "returned" /\ given_up = nchunks) => inserted = 0)

C6_Witness ==
    /\ ipc = "returned"
    /\ nchunks = 2
    /\ given_up = 2
    /\ posts = <<400>>
    /\ inserted = 0

(***************************************************************************)
(* Properties of the pipeline.                                             *)
(***************************************************************************)
\* The put numbers of the results the consumer has finished
Finished(r) == {log[r][k].n : k \in 1..Len(log[r])}

\* An iteration that ended without an identifier for its item in the corpus:
\* the save step raised, or _get_entry_id found nothing
PersistFailed(e) == e.outcome \in {"save_raise", "no_id"}

\* An iteration whose embed_single_entry gave up at least one chunk for good
ChunkGivenUp(e) == e.outcome = "embedded" /\ e.inserted < e.nchunks

\* An iteration whose embed_single_entry got as far as _update_last_id
ReachedUpdate(e) == e.outcome = "embedded"

\* An iteration whose result has an identifier and whose embed_single_entry
\* returned (the consumer counted it as saved)
Processed(e) == e.wid # 0 /\ e.outcome \in {"skipped", "embedded"}

ProcessedEntries(r) == {k \in 1..Len(log[r]) : Processed(log[r][k])}

EmbeddedEntries(r) == {k \in 1..Len(log[r]) : ReachedUpdate(log[r][k])}

\* C1: the consumer handles the queued results strictly in the order they were
\* put: the k-th result it finishes is the k-th result put, and the result it is
\* working on is the one put right after all the finished ones, so that the
\* persist step of a result begins only after every earlier result is finished.
C1_ArrivalOrder ==
    \A r \in Requests :
        /\ \A k \in 1..Len(log[r]) : log[r][k].n = k
        /\ cur[r] # NoItem => cur[r].n = Len(log[r]) + 1

C1_Witness ==
    /\ Len(log[1]) = 1
    /\ cpc[1] = "write"
    /\ cur[1].n = 2

\* C2: the sentinel is the last element put on the queue; a consumer that has
\* exited has left nothing in the queue and has finished every result of the
\* run; and a started consumer eventually exits unless an embedding call hangs.
C2_SentinelLast ==
    /\ [](\A r \in Requests :
            /\ \A i \in 1..Len(work_queue[r]) :
                  work_queue[r][i] = Sentinel => i = Len(work_queue[r]) /\ nput[r] = nresults[r]
            /\ cpc[r] = "exited" =>
                  /\ work_queue[r] = <<>>
                  /\ nput[r] = nresults[r]
                  /\ Finished(r) = 1..nresults[r])
    /\ \A r \in Requests : (cpc[r] = "get") ~> (cpc[r] \in {"exited", "hung"})

C2_Witness ==
    /\ cpc[1] = "exited"
    /\ Len(log[1]) = 2

\* C3: an iteration that ends in a persistence failure adds exactly one to
\* failed, leaves saved and chunks as they were and returns to the queue; and
\* the consumer still finishes every result put on the queue before it exits.
C3_PersistFailureCounted ==
    /\ [][\A r \in Requests :
            (Len(log'[r]) = Len(log[r]) + 1 /\ PersistFailed(Last(log'[r]))) =>
                /\ counter'[r] = Bump(counter[r], "failed", 1)
                /\ cpc'[r] = "get"]_vars
    /\ [](\A r \in Requests : cpc[r] = "exited" => Finished(r) = 1..nresults[r])

C3_Witness ==
    /\ cpc[1] = "exited"
    /\ Len(log[1]) = 2
    /\ PersistFailed(log[1][1])
    /\ ~PersistFailed(log[1][2])
    /\ counter[1] = [saved |-> 1, failed |-> 1, chunks |-> 1]

\* C4: wait_for_embed_then_query always gets past its join on the consumer
\* thread, also when the consumer never terminates.
C4_JoinReturns ==
    \A r \in Requests : (wpc[r] = "joining") ~> (wpc[r] = "joined")

C4_Witness ==
    /\ cpc[1] = "hung"
    /\ wpc[1] = "joined"
    /\ elapsed[1] >= JOIN_TIMEOUT

\* C7: every finished result whose persistence failed or whose embedding
\* insertion gave up a chunk is counted in failed.
C7_FailuresCounted ==
    \A r \in Requests :
        counter[r].failed >=
            Cardinality({k \in 1..Len(log[r]) :
                            PersistFailed(log[r][k]) \/ ChunkGivenUp(log[r][k])})

C10_NoLostAppend ==
    [][k_json.exists =>
          /\ k_json'.exists
          /\ Len(k_json'.data) >= Len(k_json.data)
          /\ SubSeq(k_json'.data, 1, Len(k_json.data)) = k_json.data]_vars

(***************************************************************************)
(* Part IV: EnhancedQueryScraper.normalize_url (query_scraper.py:311-333)  *)
(* and JSONHandler.normalize_url (excel_handler.py:31-56).                 *)
(*                                                                         *)
(* A string is a sequence of pieces; a piece is a run of characters that   *)
(* the functions never cut ("://", "www.", "/", "?", "#", "utm_", ...).    *)
(* The pieces are chosen so that a searched text never straddles two       *)
(* pieces, which makes "x in url" the search for a run of pieces.          *)
(***************************************************************************)
MaxSegs == 1     \* path segments of a generated URL
MaxParams == 2   \* query parameters of a generated URL

SeqsUpTo(S, n) == UNION {[1..k -> S] : k \in 0..n}

\* "p in s" for a non-empty p
Contains(s, p) ==
    \E i \in 0..(Len(s) - Len(p)) : SubSeq(s, i + 1, i + Len(p)) = p

\* s.split(c)[0]
BeforeFirst(s, c) ==
    IF \E i \in 1..Len(s) : s[i] = c
    THEN SubSeq(s, 1, (CHOOSE i \in 1..Len(s) : s[i] = c /\ \A j \in 1..(i - 1) : s[j] # c) - 1)
    ELSE s

\* what follows the first c in s (empty when c is absent)
AfterFirst(s, c) ==
    IF \E i \in 1..Len(s) : s[i] = c
    THEN SubSeq(s, (CHOOSE i \in 1..Len(s) : s[i] = c /\ \A j \in 1..(i - 1) : s[j] # c) + 1, Len(s))
    ELSE <<>>

\* s.endswith(c)
EndsWith(s, c) == Len(s) > 0 /\ s[Len(s)] = c

\* str.lower, piece by piece
LowerPiece(c) ==
    CASE c = "A" -> "a"
      [] c = "Docs" -> "docs"
      [] c = "Pricing" -> "pricing"
      [] OTHER -> c

Lower(s) == [i \in 1..Len(s) |-> LowerPiece(s[i])]

\* s.replace("://www.", "://")
RECURSIVE DropWww(_)
DropWww(s) ==
    IF Len(s) < 2 THEN s
    ELSE IF s[1] = "://" /\ s[2] = "www." THEN <<"://">> \o DropWww(SubSeq(s, 3, Len(s)))
    ELSE <<s[1]>> \o DropWww(Tail(s))

\* query_scraper.py:329
tracking_params == {<<"utm_">>, <<"fbclid">>, <<"gclid">>, <<"ref">>, <<"source">>, <<"campaign">>}
\* excel_handler.py:52
handler_tracking_params == {<<"utm_">>, <<"fbclid">>, <<"gclid">>, <<"ref", "=">>}

\* The body shared by the two functions, lines 313-333 / 36-56, for a list
\* of tracking parameters
NormalizeWith(url, params) ==
    LET u1 == Lower(url)
        u2 == IF Contains(u1, <<"#">>) THEN BeforeFirst(u1, "#") ELSE u1
        u3 == IF EndsWith(u2, "/") THEN SubSeq(u2, 1, Len(u2) - 1) ELSE u2
        u4 == DropWww(u3)
    IN  IF Contains(u4, <<"?">>) /\ (\E p \in params : Contains(u4, p))
        THEN BeforeFirst(u4, "?")
        ELSE u4

\* EnhancedQueryScraper.normalize_url
NormalizeUrl(url) == NormalizeWith(url, tracking_params)

\* JSONHandler.normalize_url (for a str argument)
JSONHandlerNormalizeUrl(url) == NormalizeWith(url, handler_tracking_params)

(***************************************************************************)
(* The URLs handed to the functions: scheme, optional "www.", host, path   *)
(* segments, optional trailing slash, query parameters, optional fragment. *)
(***************************************************************************)
Segments == {<<"p">>, <<"p", "ref", "s">>, <<"Docs">>}
ParamNames == {<<"q">>, <<"utm_", "source">>, <<"source">>}

RECURSIVE PathOf(_)
PathOf(segs) == IF segs = <<>> THEN <<>> ELSE <<"/">> \o Head(segs) \o PathOf(Tail(segs))

RECURSIVE ParamsOf(_)
ParamsOf(ps) ==
    IF ps = <<>> THEN <<>>
    ELSE Head(ps) \o <<"=", "1">> \o (IF Len(ps) > 1 THEN <<"&">> ELSE <<>>) \o ParamsOf(Tail(ps))

UrlParts ==
    [www : BOOLEAN, segs : SeqsUpTo(Segments, MaxSegs), slash : BOOLEAN,
     params : SeqsUpTo(ParamNames, MaxParams), frag : BOOLEAN]

MkUrl(x) ==
    <<"http", "://">> \o (IF x.www THEN <<"www.">> ELSE <<>>) \o <<"a", ".com">>
    \o PathOf(x.segs) \o (IF x.slash THEN <<"/">> ELSE <<>>)
    \o (IF x.params = <<>> THEN <<>> ELSE <<"?">> \o ParamsOf(x.params))
    \o (IF x.frag THEN <<"#", "top">> ELSE <<>>)

\* The names of the tracking parameters of the specification
IsTrackingName(name) ==
    name[1] \in {"utm_", "fbclid", "gclid", "ref", "source", "campaign"}

\* The URLs that differ from MkUrl(x) only in the given respect; the trailing
\* slash is the one that ends the URL proper (no query string follows it)
Variants(x, rel) ==
    CASE rel = "same" -> {x}
      [] rel = "fragment" -> {[x EXCEPT !.frag = ~x.frag]}
      [] rel = "slash" -> IF x.params = <<>> THEN {[x EXCEPT !.slash = ~x.slash]} ELSE {}
      [] rel = "www" -> {[x EXCEPT !.www = ~x.www]}
      [] rel = "tracking" ->
            {[x EXCEPT !.params = RemoveAt(x.params, i)] :
                i \in {j \in 1..Len(x.params) : IsTrackingName(x.params[j])}}

Relations == {"same", "fragment", "slash", "www", "tracking"}

IdleIngestion == IdlePipeline /\ IdleLid /\ IdleIns

InitNormalize ==
    /\ \E x \in UrlParts, rel \in Relations :
        \E y \in Variants(x, rel) :
            /\ n_url = <<MkUrl(x), MkUrl(y)>>
            /\ n_rel = rel
    /\ n_key = <<>>
    /\ n_hkey = <<>>
    /\ IdleAux /\ IdleIngestion /\ IdleScore /\ IdleChunk /\ IdleQuery /\ IdleSite /\ IdleExtract /\ IdleText

\* the crawler normalizes both URLs
ScraperNormalize ==
    /\ n_url # <<>>
    /\ n_key = <<>>
    /\ n_key' = <<NormalizeUrl(n_url[1]), NormalizeUrl(n_url[2])>>
    /\ UNCHANGED <<n_url, n_rel, n_hkey>>
    /\ UNCHANGED <<auxVars, pipeVars, lidVars, insVars, scoreVars, chunkVars, queryVars, siteVars,
                   extractVars, textVars>>

\* the corpus handler normalizes both URLs
HandlerNormalizeUrls ==
    /\ n_url # <<>>
    /\ n_hkey = <<>>
    /\ n_hkey' = <<JSONHandlerNormalizeUrl(n_url[1]), JSONHandlerNormalizeUrl(n_url[2])>>
    /\ UNCHANGED <<n_url, n_rel, n_key>>
    /\ UNCHANGED <<auxVars, pipeVars, lidVars, insVars, scoreVars, chunkVars, queryVars, siteVars,
                   extractVars, textVars>>

NextNormalize == ScraperNormalize \/ HandlerNormalizeUrls

SpecNormalize == InitNormalize /\ [][NextNormalize]_vars

\* the query string of a URL: what lies between the first "?" and the fragment
QueryOf(url) == BeforeFirst(AfterFirst(url, "?"), "#")

\* C11: two URLs that differ only in a fragment, a trailing slash, a leading
\* "www." or one tracking query parameter have the same
\* EnhancedQueryScraper.normalize_url.
C11_VariantsNormalizeAlike ==
    (n_key # <<>> /\ n_rel \in Relations) => n_key[1] = n_key[2]

\* C12: normalize_url keeps the whole query string of every URL whose query
\* string contains none of the tracking parameters, whatever its host and path.
C12_QueryKeptWithoutTracking ==
    (n_key # <<>> /\ ~(\E p \in tracking_params : Contains(QueryOf(Lower(n_url[1])), p))) =>
        QueryOf(n_key[1]) = QueryOf(Lower(n_url[1]))

\* C13: for every URL the corpus handler's normalize_url and the crawler's
\* normalize_url return the same string.
C13_OneDeduplicationKey ==
    (n_key # <<>> /\ n_hkey # <<>>) => n_hkey[1] = n_key[1]

(***************************************************************************)
(* Part V: EnhancedQueryScraper.score_url_importance,                      *)
(* query_scraper.py:486-523, on URLs and link texts written as pieces.     *)
(***************************************************************************)
MaxScoreSegs == 2   \* path segments of a scored URL

KW(k, pts) == [kw |-> k, points |-> pts]

\* query_scraper.py:64-77
priority_paths_cheap_pricing == {KW(<<"pricing">>, 60)}
priority_paths ==
    {KW(<<"pricing">>, 100), KW(<<"price">>, 100), KW(<<"plan", "s">>, 100), KW(<<"plan">>, 100),
     KW(<<"demo">>, 95), KW(<<"trial">>, 95), KW(<<"free-", "trial">>, 95), KW(<<"get-started">>, 95),
     KW(<<"feature", "s">>, 90), KW(<<"feature">>, 90), KW(<<"capabilities">>, 90),
     KW(<<"product", "s">>, 85), KW(<<"product">>, 85), KW(<<"service", "s">>, 85),
     KW(<<"service">>, 85), KW(<<"solutions">>, 85),
     KW(<<"about">>, 80), KW(<<"about", "-us">>, 80), KW(<<"company">>, 80), KW(<<"team">>, 80),
     KW(<<"how-it-works">>, 75), KW(<<"platform">>, 75), KW(<<"overview">>, 75), KW(<<"technology">>, 75),
     KW(<<"resources">>, 70), KW(<<"documentation">>, 70), KW(<<"docs">>, 70), KW(<<"guides">>, 70),
     KW(<<"integration", "s">>, 65), KW(<<"integration">>, 65), KW(<<"api">>, 65), KW(<<"developers">>, 65),
     KW(<<"customers">>, 60), KW(<<"case-studies">>, 60), KW(<<"testimonials">>, 60), KW(<<"reviews">>, 60),
     KW(<<"industries">>, 55), KW(<<"use-cases">>, 55), KW(<<"faq">>, 55), KW(<<"help">>, 55),
     KW(<<"support">>, 55), KW(<<"contact">>, 50), KW(<<"contact", "-us">>, 50)}

\* query_scraper.py:79-82
acceptable_paths ==
    {KW(<<"blog">>, 30), KW(<<"news">>, 30), KW(<<"updates">>, 30),
     KW(<<"careers">>, 20), KW(<<"jobs">>, 20)}

\* query_scraper.py:510-513
unwanted_patterns ==
    {<<"blog", "/", "20">>, <<"news", "/", "20">>, <<"article", "/">>, <<"/", "tag", "/">>,
     <<"/", "category", "/">>, <<"author", "/">>, <<"archive", "/">>, <<"wp-content">>,
     <<"/", "feed">>, <<"/", "rss">>}

\* urlparse(url).path
UrlPath(url) ==
    LET rest == BeforeFirst(BeforeFirst(AfterFirst(url, "://"), "#"), "?")
    IN  IF Contains(rest, <<"/">>) THEN <<"/">> \o AfterFirst(rest, "/") ELSE <<>>

\* the keywords of a table found in the URL or the link text (lines 498-507)
Hits(table, url, text) ==
    {k \in table : Contains(Lower(url), k.kw) \/ Contains(Lower(text), k.kw)}

RECURSIVE Points(_)
Points(hits) ==
    IF hits = {} THEN 0
    ELSE LET k == CHOOSE k \in hits : TRUE IN k.points + Points(hits \ {k})

PatternHits(url) == {p \in unwanted_patterns : Contains(Lower(url), p)}

\* score before the return statement (lines 494-521)
RawScore(url, text) ==
    Points(Hits(priority_paths, url, text)) + Points(Hits(acceptable_paths, url, text))
    - 50 * Cardinality(PatternHits(url))
    + (IF UrlPath(url) \in {<<>>, <<"/">>} THEN 10 ELSE 0)

\* max(0, score), line 523
ClampNone(score) == score
Clamp(score) == IF score > 0 THEN score ELSE 0

ScoreUrlImportance(url, text) == Clamp(RawScore(url, text))

(***************************************************************************)
(* The scored inputs: a URL of site a.com with up to MaxScoreSegs path     *)
(* segments and a link text; the second input is the first, or the first   *)
(* without the word "pricing" that its path or its link text carries.      *)
(***************************************************************************)
ScoreSegments == {<<"pricing">>, <<"blog">>, <<"article">>, <<"archive">>}
LinkTexts == {<<>>, <<"Pricing">>, <<"Our ", "blog">>}

ScoreUrl(segs, slash) ==
    <<"http", "://", "a", ".com">> \o PathOf(segs) \o (IF slash THEN <<"/">> ELSE <<>>)

NotPricing(seg) == seg # <<"pricing">>

\* a and b are alike in every scoring respect (secondary keywords, unwanted
\* patterns, home page) except that a contains "pricing" and b no priority
\* keyword
AlikeButPricing(a, b) ==
    /\ Contains(Lower(a.url) \o <<" ">> \o Lower(a.text), <<"pricing">>)
    /\ Hits(priority_paths, b.url, b.text) = {}
    /\ Hits(acceptable_paths, b.url, b.text) = Hits(acceptable_paths, a.url, a.text)
    /\ PatternHits(b.url) = PatternHits(a.url)
    /\ (UrlPath(b.url) \in {<<>>, <<"/">>}) = (UrlPath(a.url) \in {<<>>, <<"/">>})

InitScore ==
    /\ \E segs \in SeqsUpTo(ScoreSegments, MaxScoreSegs), slash \in BOOLEAN, t \in LinkTexts :
       \E segs2 \in {segs, SelectSeq(segs, NotPricing)}, t2 \in {t, <<>>} :
        LET a == [url |-> ScoreUrl(segs, slash), text |-> t]
            b == [url |-> ScoreUrl(segs2, slash), text |-> t2]
        IN
        /\ (b = a \/ AlikeButPricing(a, b))
        /\ s_in = <<a, b>>
    /\ s_out = <<-1, -1>>
    /\ IdleAux /\ IdleIngestion /\ IdleNorm /\ IdleChunk /\ IdleQuery /\ IdleSite /\ IdleExtract /\ IdleText

\* score_url_importance is called on one of the inputs
Score(i) ==
    /\ s_in # <<>>
    /\ s_out[i] = -1
    /\ s_out' = [s_out EXCEPT ![i] = ScoreUrlImportance(s_in[i].url, s_in[i].text)]
    /\ UNCHANGED s_in
    /\ UNCHANGED <<auxVars, pipeVars, lidVars, insVars, normVars, chunkVars, queryVars, siteVars,
                   extractVars, textVars>>

NextScore == \E i \in 1..2 : Score(i)

SpecScore == InitScore /\ [][NextScore]_vars

\* C14: the score returned for any URL and link text is at least 0, however
\* many 50-point penalties apply: it is the points total when that is positive
\* and 0 otherwise.
C14_ScoreNonNegative ==
    \A i \in 1..2 :
        (s_in # <<>> /\ s_out[i] # -1) =>
            /\ s_out[i] >= 0
            /\ s_out[i] >= RawScore(s_in[i].url, s_in[i].text)
            /\ (s_out[i] = 0 \/ s_out[i] = RawScore(s_in[i].url, s_in[i].text))

\* a URL with two penalties and no keyword has been scored 0
C14_Witness ==
    /\ s_in # <<>> /\ s_out[1] = 0
    /\ Cardinality(PatternHits(s_in[1].url)) = 2
    /\ RawScore(s_in[1].url, s_in[1].text) = -100

\* the two inputs are alike in every scoring respect except that the first
\* contains "pricing" and the second no priority keyword
PricingPair ==
    /\ s_in # <<>> /\ s_out[1] # -1 /\ s_out[2] # -1
    /\ AlikeButPricing(s_in[1], s_in[2])

\* C15 as stated: the "pricing" input scores at least 100 more than its
\* counterpart without priority keyword.
C15_PricingScoresHundredMore ==
    PricingPair => s_out[1] >= s_out[2] + 100

\* C15: the "pricing" input never scores less than its counterpart, and it
\* scores at least 100 more whenever the counterpart's points total before
\* the clamp at 0 is not negative.
C15_PricingScoresHundredMoreUnclamped ==
    PricingPair =>
        /\ s_out[1] >= s_out[2]
        /\ RawScore(s_in[2].url, s_in[2].text) >= 0 => s_out[1] >= s_out[2] + 100

\* a pair whose counterpart has a positive total: 130 against 30
C15_Witness ==
    /\ PricingPair
    /\ s_out[2] = 30 /\ s_out[1] = 130

(***************************************************************************)
(* Part VI: split_into_chunks(text, chunk_size = 500, overlap = 50),       *)
(* generate_embeddings.py:68-97.  The text is its number of words; a chunk *)
(* is the slice words[first:end], written <<first, end>> with end already  *)
(* cut at len(words) as a Python slice is.                                 *)
(***************************************************************************)
MaxWords == 1000   \* words of the text

CHUNK_SIZE == 500
OVERLAP == 50

Min2(a, b) == IF a < b THEN a ELSE b

\* generate_embeddings.py:86
StepNoOverlap == CHUNK_SIZE
Step == CHUNK_SIZE - OVERLAP

InitChunk ==
    /\ words \in 0..MaxWords
    /\ start = 0
    /\ chunks = <<>>
    /\ kpc = "called"
    /\ IdleAux /\ IdleIngestion /\ IdleNorm /\ IdleScore /\ IdleQuery /\ IdleSite /\ IdleExtract /\ IdleText

\* lines 81-87: an empty text returns [] at once
BeginSplit ==
    /\ kpc = "called"
    /\ kpc' = IF words = 0 THEN "returned" ELSE "loop"
    /\ UNCHANGED <<words, start, chunks>>
    /\ UNCHANGED <<auxVars, pipeVars, lidVars, insVars, normVars, scoreVars, queryVars, siteVars,
                   extractVars, textVars>>

\* lines 89-95: one test of the while condition and one pass of its body
Iterate ==
    /\ kpc = "loop"
    /\ IF start < words
       THEN LET end == start + CHUNK_SIZE
            IN  /\ chunks' = Append(chunks, <<start, Min2(end, words)>>)
                /\ IF end >= words
                   THEN kpc' = "returned" /\ start' = start
                   ELSE kpc' = "loop" /\ start' = start + Step
       ELSE kpc' = "returned" /\ UNCHANGED <<start, chunks>>
    /\ UNCHANGED words
    /\ UNCHANGED <<auxVars, pipeVars, lidVars, insVars, normVars, scoreVars, queryVars, siteVars,
                   extractVars, textVars>>

NextChunk == BeginSplit \/ Iterate

SpecChunk == InitChunk /\ [][NextChunk]_vars

\* the number of words two slices have in common
Shared(c, d) ==
    LET lo == IF c[1] > d[1] THEN c[1] ELSE d[1]
        hi == Min2(c[2], d[2])
    IN  IF hi > lo THEN hi - lo ELSE 0

\* C16: the chunks start at word 0, 450, 900, ...; every chunk but the last
\* has exactly 500 words; consecutive chunks share exactly 50 words; the
\* returned chunks cover every word of the text; and a text of 1000 words
\* yields [0:500), [450:950), [900:1000).
C16_ChunkLayout ==
    /\ \A k \in 1..Len(chunks) : chunks[k][1] = 450 * (k - 1)
    /\ \A k \in 1..(Len(chunks) - 1) :
        /\ chunks[k][2] - chunks[k][1] = 500
        /\ Shared(chunks[k], chunks[k + 1]) = 50
    /\ kpc = "returned" =>
        /\ words = 0 <=> chunks = <<>>
        /\ \A w \in 0..(words - 1) :
            \E k \in 1..Len(chunks) : chunks[k][1] <= w /\ w < chunks[k][2]
        /\ \A k \in 1..Len(chunks) : chunks[k][1] < chunks[k][2] /\ chunks[k][2] <= words
        /\ words = 1000 => chunks = <<<<0, 500>>, <<450, 950>>, <<900, 1000>>>>

\* a text of 1000 words has been split in three chunks
C16_Witness ==
    words = 1000 /\ kpc = "returned" /\ Len(chunks) = 3

(***************************************************************************)
(* Part VII: EnhancedQueryScraper.process_query, query_scraper.py:1269-    *)
(* 1342, with filter_already_scraped (1249-1267).  The search collaborator *)
(* returns any list of at most max_websites * 3 candidate URLs; each       *)
(* scrape_website call ends with a result or an error result.  The run is  *)
(* followed by what the /scrape handler makes of the returned list         *)
(* (main.py:158-202).                                                      *)
(***************************************************************************)
MaxCands == 3      \* candidates returned by one search
MaxWebsites == 2   \* the argument max_websites

\* "http://a.com", "http://www.a.com/", "http://b.com", "http://c.com/#top"
CandidateUrls ==
    {<<"http", "://", "a", ".com">>, <<"http", "://", "www.", "a", ".com", "/">>,
     <<"http", "://", "b", ".com">>, <<"http", "://", "c", ".com", "/", "#", "top">>}
\* "http://A.com/", "http://b.com"
SeenUrls == {<<"http", "://", "A", ".com", "/">>, <<"http", "://", "b", ".com">>}

\* filter_already_scraped
NotAlreadyScrapedRaw(url, scraped_urls) == url \notin scraped_urls
NotAlreadyScraped(url, scraped_urls) ==
    NormalizeUrl(url) \notin {NormalizeUrl(u) : u \in scraped_urls}

RECURSIVE FilterAlreadyScraped(_, _)
FilterAlreadyScraped(us, scraped_urls) ==
    IF us = <<>> THEN <<>>
    ELSE (IF NotAlreadyScraped(Head(us), scraped_urls) THEN <<Head(us)>> ELSE <<>>)
         \o FilterAlreadyScraped(Tail(us), scraped_urls)

\* urls[:n] for n >= 0
Prefix(us, n) == SubSeq(us, 1, Min2(n, Len(us)))

\* what one search stage gives: an exception, or a list of valid URLs
SearchStage(n) ==
    {[raised |-> TRUE, urls |-> <<>>]}
    \cup {[raised |-> FALSE, urls |-> u] : u \in SeqsUpTo(CandidateUrls, n)}

\* search_duckduckgo, lines 171-210: the ddgs result if it holds a URL, else
\* the result of _search_duckduckgo_html, which is [] when it raises
SearchDuckduckgo(ddgs, html) == IF ddgs.urls # <<>> THEN ddgs.urls ELSE html.urls

\* scrape_website, lines 1199-1219: the result of one site
SiteResult(url, title) == [website_link |-> url, title |-> title]

\* results.append(data), line 1318
AppendResultUnlessError(rs, data) == IF data.title = "Error" THEN rs ELSE Append(rs, data)
AppendResult(rs, data) == Append(rs, data)

\* main.py:169-174: the results the handler keeps
Successful(rs) == SelectSeq(rs, LAMBDA r : r.title \notin {"Error", "Error - Failed to scrape"})

\* main.py:162 and 180: the handler returns "No new results found"
NothingToEmbedNever(rs) == FALSE
NothingToEmbed(rs) == rs = <<>> \/ Successful(rs) = <<>>

InitQuery ==
    /\ qpc = "search"
    /\ max_websites \in 0..MaxWebsites
    /\ already_scraped \in SUBSET SeenUrls
    /\ urls = <<>>
    /\ results = <<>>
    /\ search_result = <<>>
    /\ crawled = <<>>
    /\ search_raised = {}
    /\ enqueued = 0
    /\ consumer = FALSE
    /\ IdleAux /\ IdleIngestion /\ IdleNorm /\ IdleScore /\ IdleChunk /\ IdleSite /\ IdleExtract /\ IdleText

\* lines 1290-1295
Search ==
    /\ qpc = "search"
    /\ \E ddgs, html \in SearchStage(Min2(MaxCands, max_websites * 3)) :
        /\ ddgs.urls # <<>> => html = ddgs
        /\ search_raised' = (IF ddgs.raised THEN {"ddgs"} ELSE {})
                             \cup (IF ddgs.urls = <<>> /\ html.raised THEN {"html"} ELSE {})
        /\ search_result' = SearchDuckduckgo(ddgs, html)
        /\ urls' = search_result'
        /\ qpc' = IF urls' = <<>> THEN "returned" ELSE "filter"
    /\ UNCHANGED <<max_websites, already_scraped, results, crawled, enqueued, consumer>>
    /\ UNCHANGED <<auxVars, pipeVars, lidVars, insVars, normVars, scoreVars, chunkVars, siteVars,
                   extractVars, textVars>>

\* lines 1297-1306
Filter ==
    /\ qpc = "filter"
    /\ urls' = Prefix(IF already_scraped # {}
                      THEN FilterAlreadyScraped(urls, already_scraped)
                      ELSE urls,
                      max_websites)
    /\ qpc' = IF urls' = <<>> THEN "returned" ELSE "scrape"
    /\ UNCHANGED <<max_websites, already_scraped, results, search_result, crawled,
                   search_raised, enqueued, consumer>>
    /\ UNCHANGED <<auxVars, pipeVars, lidVars, insVars, normVars, scoreVars, chunkVars, siteVars,
                   extractVars, textVars>>

\* lines 1313-1342: one pass of the loop over urls; the last pass returns
ScrapeSite ==
    /\ qpc = "scrape"
    /\ LET url == urls[Len(crawled) + 1]
       IN  /\ crawled' = Append(crawled, url)
           /\ \E title \in {"ok", "Error"} :
                results' = AppendResult(results, SiteResult(url, title))
    /\ qpc' = IF Len(crawled') = Len(urls) THEN "returned" ELSE "scrape"
    /\ UNCHANGED <<max_websites, already_scraped, urls, search_result, search_raised,
                   enqueued, consumer>>
    /\ UNCHANGED <<auxVars, pipeVars, lidVars, insVars, normVars, scoreVars, chunkVars, siteVars,
                   extractVars, textVars>>

\* main.py:158-202: the handler on the list process_query returned
ScrapeHandler ==
    /\ qpc = "returned"
    /\ qpc' = "handled"
    /\ consumer' = ~NothingToEmbed(results)
    /\ enqueued' = IF NothingToEmbed(results) THEN 0 ELSE Len(Successful(results))
    /\ UNCHANGED <<max_websites, already_scraped, urls, results, search_result, crawled,
                   search_raised>>
    /\ UNCHANGED <<auxVars, pipeVars, lidVars, insVars, normVars, scoreVars, chunkVars, siteVars,
                   extractVars, textVars>>

NextQuery == Search \/ Filter \/ ScrapeSite \/ ScrapeHandler

SpecQuery == InitQuery /\ [][NextQuery]_vars

\* a candidate whose normalized form is the normalized form of an
\* already-scraped URL
Seen(url) == NormalizeUrl(url) \in {NormalizeUrl(u) : u \in already_scraped}
Unseen(url) == ~Seen(url)

\* C17: process_query crawls no candidate whose normalized form is that of an
\* already-scraped URL, crawls at most max_websites sites, and with 3
\* candidates of which 1 is already seen and max_websites >= 2 it crawls
\* exactly the 2 unseen candidates.
C17_SeenNeverCrawled ==
    /\ \A i \in 1..Len(crawled) : Unseen(crawled[i])
    /\ Len(crawled) <= max_websites
    /\ (/\ qpc = "returned"
        /\ Len(search_result) = 3
        /\ Cardinality({i \in 1..3 : Seen(search_result[i])}) = 1
        /\ max_websites >= 2)
       => crawled = SelectSeq(search_result, Unseen)

\* 3 candidates, "http://www.a.com/" already scraped as "http://A.com/", and
\* the two others crawled
C17_Witness ==
    /\ qpc = "returned"
    /\ search_result = <<<<"http", "://", "b", ".com">>,
                         <<"http", "://", "www.", "a", ".com", "/">>,
                         <<"http", "://", "c", ".com", "/", "#", "top">>>>
    /\ already_scraped = {<<"http", "://", "A", ".com", "/">>}
    /\ crawled = <<search_result[1], search_result[3]>>

C24_NoCandidatesNoCrawl ==
    /\ "html" \in search_raised => search_result = <<>>
    /\ (qpc # "search" /\ search_result = <<>>) =>
          /\ qpc \in {"returned", "handled"}
          /\ results = <<>> /\ crawled = <<>>
          /\ enqueued = 0 /\ ~consumer

\* the ddgs package and the HTML fallback both raised, and the handler has
\* answered
C24_Witness ==
    /\ qpc = "handled"
    /\ search_raised = {"ddgs", "html"}
    /\ max_websites = 2
    /\ results = <<>>

\* C25 as stated: within one process_query run no two crawled sites have
\* URLs with the same normalized form.
C25_CrawledSitesDistinct ==
    \A i, j \in 1..Len(crawled) :
        i # j => NormalizeUrl(crawled[i]) # NormalizeUrl(crawled[j])


(***************************************************************************)
(* Part VIII: one site traversal, query_scraper.py:599-863, with           *)
(* extract_and_prioritize_links (525-575).  A fetch either raises or       *)
(* returns a page; the page carries any selection of the anchors its URL   *)
(* can carry, in document order.  Two sites are crawled: a.com, whose      *)
(* pages may all link to one another (two of them score alike), and b.com, *)
(* a chain of pages each linking to the next one and back to the first.    *)
(***************************************************************************)
MaxPages == 2   \* the largest finite page budget

MAX_DEPTH == 10
\* float('inf'), the budget of an unlimited traversal
Unlimited == -1
Strategies == {"bfs", "dfs", "priority"}

SiteA(path) == <<"http", "://", "a", ".com">> \o path
ChainUrl(i) == <<"http", "://", "b", ".com", "/", "docs", "/", ToString(i)>>

\* the anchors a page of a.com can carry, in document order
AnchorsOfA ==
    <<SiteA(<<"/", "blog">>), SiteA(<<"/", "pricing">>),
      SiteA(<<"/">>), SiteA(<<"/", "news">>), SiteA(<<"/", "login">>)>>

ChainIndex(url) == CHOOSE i \in 0..(MAX_DEPTH + 1) : ChainUrl(i) = url

\* the anchors the page at url can carry, in document order
DocOrder(url) ==
    IF url[3] = "a" THEN AnchorsOfA
    ELSE IF ChainIndex(url) <= MAX_DEPTH
         THEN <<ChainUrl(ChainIndex(url) + 1), ChainUrl(0)>>
         ELSE <<ChainUrl(0)>>

RECURSIVE SubSeqs(_)
SubSeqs(q) ==
    IF q = <<>> THEN {<<>>}
    ELSE LET rest == SubSeqs(Tail(q))
         IN  rest \cup {<<Head(q)>> \o r : r \in rest}

\* what session.get, raise_for_status and BeautifulSoup can give for url: an
\* exception (session.get timed out or could not connect, or the status was
\* not 2xx), or a page with some of its anchors
Failed == {[ok |-> FALSE, anchors |-> <<>>, error |-> e] : e \in {"timeout", "status"}}
FetchOutcomes(url) ==
    Failed \cup {[ok |-> TRUE, anchors |-> a, error |-> "none"] : a \in SubSeqs(DocOrder(url))}

\* urlparse(url).netloc
NetLoc(url) == BeforeFirst(BeforeFirst(BeforeFirst(AfterFirst(url, "://"), "/"), "?"), "#")

\* query_scraper.py:95-101 and 104-111
skip_paths ==
    {<<"/", "signup">>, <<"/", "sign-up">>, <<"/", "signin">>, <<"/", "sign-in">>, <<"/", "login">>,
     <<"/", "register">>, <<"/", "admin">>, <<"/", "dashboard">>, <<"/", "profile">>,
     <<"/", "account">>, <<"/", "settings">>, <<"/", "user">>, <<"/", "cart">>, <<"/", "checkout">>,
     <<"/", "billing">>, <<"/", "invoice">>, <<"/", "privacy">>, <<"/", "terms">>, <<"/", "legal">>,
     <<"/", "cookie">>, <<"/", "gdpr">>, <<"/", "compliance">>, <<"/", "download">>,
     <<"/", "downloads">>, <<"/", "assets">>, <<"/", "cdn">>, <<"forget-password">>,
     <<"/", "reset-password">>}
skip_extensions ==
    {".pdf", ".jpg", ".jpeg", ".png", ".gif", ".svg", ".webp", ".ico", ".bmp", ".mp4", ".mp3",
     ".avi", ".mov", ".wmv", ".flv", ".webm", ".zip", ".rar", ".tar", ".gz", ".7z", ".exe", ".dmg",
     ".pkg", ".deb", ".rpm", ".doc", ".docx", ".xls", ".xlsx", ".ppt", ".pptx", ".xml", ".json",
     ".csv", ".rss", ".atom"}

\* the pieces that are runs of digits, by length
DigitRuns == [n \in 1..4 |-> CASE n = 1 -> {"2"} [] n = 2 -> {"01"} [] n = 4 -> {"2024"}
                                [] OTHER -> {}]

\* re.search(r'/\d{4}/\d{2}/', url_lower)
DatedPath(url) ==
    \E i \in 1..(Len(url) - 4) :
        /\ url[i] = "/" /\ url[i + 1] \in DigitRuns[4]
        /\ url[i + 2] = "/" /\ url[i + 3] \in DigitRuns[2]
        /\ url[i + 4] = "/"

\* re.search(r'[?&]page=\d+', url_lower)
Paginated(url) ==
    \E i \in 1..(Len(url) - 3) :
        /\ url[i] \in {"?", "&"} /\ url[i + 1] = "page" /\ url[i + 2] = "="
        /\ url[i + 3] \in UNION {DigitRuns[n] : n \in 1..4}

\* _is_valid_internal_link
IsValidInternalLinkAlways(url) == TRUE
IsValidInternalLink(url) ==
    /\ ~(\E sp \in skip_paths : Contains(Lower(url), sp))
    /\ ~(\E x \in skip_extensions : EndsWith(Lower(url), x))
    /\ ~DatedPath(Lower(url))
    /\ ~Paginated(Lower(url))

Link(u, sc) == [url |-> u, score |-> sc]

\* the list left as it is, and a sort that puts the later of two links of
\* equal score first
KeepQueueOrder(links) == links
RECURSIVE SortByScoreTiesReversed(_)
SortByScoreTiesReversed(links) ==
    IF links = <<>> THEN <<>>
    ELSE LET sorted == SortByScoreTiesReversed(SubSeq(links, 1, Len(links) - 1))
             x == links[Len(links)]
             k == Cardinality({i \in 1..Len(sorted) : sorted[i].score > x.score})
         IN  SubSeq(sorted, 1, k) \o <<x>> \o SubSeq(sorted, k + 1, Len(sorted))

\* list.sort(key = score, reverse = True): stable, highest score first
RECURSIVE SortByScore(_)
SortByScore(links) ==
    IF links = <<>> THEN <<>>
    ELSE LET sorted == SortByScore(SubSeq(links, 1, Len(links) - 1))
             x == links[Len(links)]
             k == Cardinality({i \in 1..Len(sorted) : sorted[i].score >= x.score})
         IN  SubSeq(sorted, 1, k) \o <<x>> \o SubSeq(sorted, k + 1, Len(sorted))

\* the loop of extract_and_prioritize_links, lines 534-568
RECURSIVE KeepLinks(_, _, _)
KeepLinks(url, anchors, seen_normalized) ==
    IF anchors = <<>> THEN <<>>
    ELSE LET href == Head(anchors)
             normalized == NormalizeUrl(href)
             score == ScoreUrlImportance(href, <<>>)
         IN  IF \/ NetLoc(href) # NetLoc(url)
                \/ ~IsValidInternalLink(href)
                \/ normalized \in seen_normalized
             THEN KeepLinks(url, Tail(anchors), seen_normalized)
             ELSE (IF score > 0 THEN <<Link(href, score)>> ELSE <<>>)
                  \o KeepLinks(url, Tail(anchors), seen_normalized \cup {normalized})

\* every URL of the two sites, and extract_and_prioritize_links worked out
\* once for each page they can serve
SiteUrls ==
    {SiteA(<<>>)} \cup {AnchorsOfA[i] : i \in 1..Len(AnchorsOfA)}
    \cup {ChainUrl(i) : i \in 0..(MAX_DEPTH + 1)}
PriorityLinks ==
    [url \in SiteUrls |->
        [anchors \in SubSeqs(DocOrder(url)) |-> SortByScore(KeepLinks(url, anchors, {}))]]
VisitKeys == [url \in SiteUrls |-> NormalizeUrl(url)]

ExtractAndPrioritizeLinks(url, anchors) == PriorityLinks[url][anchors]

\* "not unlimited and len(scraped_pages) >= max_pages"
BudgetSpentNever(n, budget) == FALSE
BudgetSpentInfIsZero(n, budget) == budget = Unlimited \/ n >= budget
BudgetSpent(n, budget) == budget # Unlimited /\ n >= budget

\* the key under which a URL is looked up in, and added to, visited
VisitKeyRaw(url) == url
VisitKey(url) == VisitKeys[url]

\* the links of a page that are not in visited (lines 655-661, 797-803, 845-851)
Unvisited(links, vis) == SelectSeq(links, LAMBDA l : VisitKey(l.url) \notin vis)
KeysOf(links) == {VisitKey(links[i].url) : i \in 1..Len(links)}
Found(links, depth) == {[url |-> links[i].url, depth |-> depth] : i \in 1..Len(links)}

\* queue.append(link_url) / priority_queue.append(link_info): the links join
\* the queue in the order of the list; at is the number of the fetch that
\* brought them, seq their rank among all links ever queued
Stamp(links, at, base) ==
    [i \in 1..Len(links) |->
        [url |-> links[i].url, score |-> links[i].score, at |-> at, seq |-> base + i]]

\* one session.get: the page asked for, what came back, and the link followed
Fetch(link, page, depth, at) ==
    [url |-> link.url, ok |-> page.ok, error |-> page.error, depth |-> depth,
     score |-> link.score, at |-> at]

\* "except Exception ... continue": the loop goes on with the candidates left
QueueAfterFailureAbandoned(rest) == <<>>
QueueAfterFailure(rest) == rest

\* "depth > max_depth"
DepthExceededNever(depth) == FALSE
DepthExceeded(depth) == depth > MAX_DEPTH

InitSite ==
    /\ tpc = "called"
    /\ strategy \in Strategies
    /\ max_pages \in (0..MaxPages) \cup {Unlimited}
    /\ start_url \in {SiteA(<<>>), ChainUrl(0)}
    /\ visited = {}
    /\ frontier = <<>>
    /\ stack = <<>>
    /\ scraped_pages = <<>>
    /\ fetches = <<>>
    /\ discovered = {}
    /\ IdleAux /\ IdleIngestion /\ IdleNorm /\ IdleScore /\ IdleChunk /\ IdleQuery /\ IdleExtract /\ IdleText

\* crawl_website_bfs, lines 607-617
BfsStart ==
    /\ tpc = "called" /\ strategy = "bfs"
    /\ visited' = {VisitKey(start_url)}
    /\ frontier' = Stamp(<<Link(start_url, 0)>>, 0, 0)
    /\ tpc' = "loop"
    /\ UNCHANGED <<strategy, max_pages, start_url, stack, scraped_pages, fetches, discovered>>
    /\ UNCHANGED <<auxVars, pipeVars, lidVars, insVars, normVars, scoreVars, chunkVars, queryVars,
                   extractVars, textVars>>

\* crawl_website_bfs, lines 619-670: one test of the while condition and one
\* pass of its body
BfsStep ==
    /\ tpc = "loop" /\ strategy = "bfs"
    /\ IF frontier = <<>> \/ BudgetSpent(Len(scraped_pages), max_pages)
       THEN /\ tpc' = "returned"
            /\ UNCHANGED <<visited, frontier, scraped_pages, fetches, discovered>>
       ELSE \E page \in FetchOutcomes(Head(frontier).url) :
            LET current_url == Head(frontier).url
                priority_links == ExtractAndPrioritizeLinks(current_url, page.anchors)
                new == Stamp(Unvisited(priority_links, visited), Len(fetches) + 1,
                             Cardinality(visited))
            IN  /\ fetches' = Append(fetches, Fetch(Head(frontier), page, 0, Head(frontier).at))
                /\ tpc' = "loop"
                /\ IF page.ok
                   THEN /\ scraped_pages' = Append(scraped_pages, current_url)
                        /\ discovered' = discovered \cup Found(priority_links, 0)
                        /\ visited' = visited \cup KeysOf(new)
                        /\ frontier' = Tail(frontier) \o new
                   ELSE /\ frontier' = QueueAfterFailure(Tail(frontier))
                        /\ UNCHANGED <<visited, scraped_pages, discovered>>
    /\ UNCHANGED <<strategy, max_pages, start_url, stack>>
    /\ UNCHANGED <<auxVars, pipeVars, lidVars, insVars, normVars, scoreVars, chunkVars, queryVars,
                   extractVars, textVars>>

\* crawl_website_dfs is called on start_url at depth 0 (lines 678-690); the
\* call is the one link of a frame at depth -1
DfsStart ==
    /\ tpc = "called" /\ strategy = "dfs"
    /\ stack' = <<[links |-> <<Link(start_url, 0)>>, depth |-> -1, at |-> 0]>>
    /\ tpc' = "loop"
    /\ UNCHANGED <<strategy, max_pages, start_url, visited, frontier, scraped_pages, fetches,
                   discovered>>
    /\ UNCHANGED <<auxVars, pipeVars, lidVars, insVars, normVars, scoreVars, chunkVars, queryVars,
                   extractVars, textVars>>

\* crawl_website_dfs, lines 732-746 and 692-730: the innermost call either
\* ends its loop over priority_links and returns, or calls itself on the next
\* link; that call returns at once (stop condition, visited, failed fetch) or
\* fetches the page and begins its own loop
DfsStep ==
    /\ tpc = "loop" /\ strategy = "dfs"
    /\ LET frame == stack[Len(stack)]
           below == SubSeq(stack, 1, Len(stack) - 1)
       IN
       IF frame.links = <<>> \/ BudgetSpent(Len(scraped_pages), max_pages)
       THEN /\ stack' = below
            /\ tpc' = IF below = <<>> THEN "returned" ELSE "loop"
            /\ UNCHANGED <<visited, scraped_pages, fetches, discovered>>
       ELSE LET link_url == Head(frame.links).url
                depth == frame.depth + 1
                after == Append(below, [frame EXCEPT !.links = Tail(frame.links)])
            IN  /\ tpc' = "loop"
                /\ IF \/ BudgetSpent(Len(scraped_pages), max_pages)
                      \/ DepthExceeded(depth)
                      \/ VisitKey(link_url) \in visited
                   THEN /\ stack' = after
                        /\ UNCHANGED <<visited, scraped_pages, fetches, discovered>>
                   ELSE \E page \in FetchOutcomes(link_url) :
                        LET priority_links == ExtractAndPrioritizeLinks(link_url, page.anchors)
                        IN  /\ visited' = visited \cup {VisitKey(link_url)}
                            /\ fetches' = Append(fetches, Fetch(Head(frame.links), page, depth,
                                                                 frame.at))
                            /\ IF page.ok
                               THEN /\ scraped_pages' = Append(scraped_pages, link_url)
                                    /\ discovered' = discovered \cup Found(priority_links, depth)
                                    /\ stack' = Append(after, [links |-> priority_links,
                                                               depth |-> depth,
                                                               at |-> Len(fetches) + 1])
                               ELSE /\ stack' = after
                                    /\ UNCHANGED <<scraped_pages, discovered>>
    /\ UNCHANGED <<strategy, max_pages, start_url, frontier>>
    /\ UNCHANGED <<auxVars, pipeVars, lidVars, insVars, normVars, scoreVars, chunkVars, queryVars,
                   extractVars, textVars>>

\* crawl_website_priority, lines 757-810: the homepage is fetched first
PriorityHome ==
    /\ tpc = "called" /\ strategy = "priority"
    /\ \E page \in FetchOutcomes(start_url) :
        LET priority_links == ExtractAndPrioritizeLinks(start_url, page.anchors)
            new == Stamp(Unvisited(priority_links, {VisitKey(start_url)}), 1, 1)
        IN  /\ fetches' = <<Fetch(Link(start_url, 0), page, 0, 0)>>
            /\ IF page.ok
               THEN /\ scraped_pages' = <<start_url>>
                    /\ discovered' = Found(priority_links, 0)
                    /\ visited' = {VisitKey(start_url)} \cup KeysOf(new)
                    /\ frontier' = SortByScore(new)
                    /\ tpc' = "loop"
               ELSE /\ visited' = {VisitKey(start_url)}
                    /\ tpc' = "returned"
                    /\ UNCHANGED <<frontier, scraped_pages, discovered>>
    /\ UNCHANGED <<strategy, max_pages, start_url, stack>>
    /\ UNCHANGED <<auxVars, pipeVars, lidVars, insVars, normVars, scoreVars, chunkVars, queryVars,
                   extractVars, textVars>>

\* crawl_website_priority, lines 813-863: one test of the while condition and
\* one pass of its body
PriorityStep ==
    /\ tpc = "loop" /\ strategy = "priority"
    /\ IF frontier = <<>> \/ BudgetSpent(Len(scraped_pages), max_pages)
       THEN /\ tpc' = "returned"
            /\ UNCHANGED <<visited, frontier, scraped_pages, fetches, discovered>>
       ELSE \E page \in FetchOutcomes(Head(frontier).url) :
            LET current_url == Head(frontier).url
                new_links == ExtractAndPrioritizeLinks(current_url, page.anchors)
                new == Stamp(Unvisited(new_links, visited), Len(fetches) + 1,
                             Cardinality(visited))
            IN  /\ fetches' = Append(fetches, Fetch(Head(frontier), page, 0, Head(frontier).at))
                /\ tpc' = "loop"
                /\ IF page.ok
                   THEN /\ scraped_pages' = Append(scraped_pages, current_url)
                        /\ discovered' = discovered \cup Found(new_links, 0)
                        /\ visited' = visited \cup KeysOf(new)
                        /\ frontier' = SortByScore(Tail(frontier) \o new)
                   ELSE /\ frontier' = QueueAfterFailure(Tail(frontier))
                        /\ UNCHANGED <<visited, scraped_pages, discovered>>
    /\ UNCHANGED <<strategy, max_pages, start_url, stack>>
    /\ UNCHANGED <<auxVars, pipeVars, lidVars, insVars, normVars, scoreVars, chunkVars, queryVars,
                   extractVars, textVars>>

NextSite == BfsStart \/ BfsStep \/ DfsStart \/ DfsStep \/ PriorityHome \/ PriorityStep

SpecSite == InitSite /\ [][NextSite]_vars

\* the normalized forms (VisitKeys is the table of normalize_url) of the URLs
\* a fetch was issued for
FetchedKeys == {VisitKeys[fetches[i].url] : i \in 1..Len(fetches)}

\* C18: in one site traversal, whatever the strategy and the links the
\* pages carry, no two fetches are issued for URLs with the same normalized
\* form.
C18_NoRefetch ==
    \A i, j \in 1..Len(fetches) :
        i # j => VisitKeys[fetches[i].url] # VisitKeys[fetches[j].url]

\* a page of a.com linked back to the start URL under the spelling
\* "http://a.com/" and three different pages were fetched
C18_Witness ==
    /\ tpc = "returned"
    /\ Len(fetches) = 3
    /\ \E l \in discovered : l.url = SiteA(<<"/">>)
    /\ fetches[1].url = SiteA(<<>>)

\* C19 as stated: whatever the strategy, a finite budget max_pages >= 0 is
\* never exceeded by the number of pages collected.
C19_WithinBudget ==
    max_pages # Unlimited => Len(scraped_pages) <= max_pages

\* C19: BFS and DFS never collect more than max_pages pages; the priority
\* strategy, which fetches the homepage before it looks at the budget, never
\* collects more than max_pages pages or one page, whichever is larger.
C19_WithinBudgetButHomepage ==
    max_pages # Unlimited =>
        Len(scraped_pages) <= (IF strategy = "priority" /\ max_pages = 0 THEN 1 ELSE max_pages)

\* a traversal stopped by its budget of 2 pages while a candidate was waiting
C19_Witness ==
    /\ tpc = "returned" /\ strategy = "priority"
    /\ max_pages = 2 /\ Len(scraped_pages) = 2
    /\ frontier # <<>>

LastFetch(fs) == fs[Len(fs)]

\* C21 as stated: in a priority traversal, of any two non-homepage pages
\* fetched, the one with the strictly higher link score is fetched first.
C21_HigherScoreFetchedFirst ==
    strategy = "priority" =>
        \A i, j \in 2..Len(fetches) : i < j => fetches[j].score <= fetches[i].score

\* C21: in a priority traversal, a non-homepage page is fetched after a page
\* of strictly lower link score only if its link was not yet in the priority
\* queue when that page was popped, i.e. it was discovered on that page or on
\* a page fetched later.
C21_HigherScoreFetchedFirstOnceQueued ==
    strategy = "priority" =>
        \A i, j \in 2..Len(fetches) :
            (i < j /\ fetches[j].score > fetches[i].score) => fetches[j].at >= i

\* the homepage linked to /blog and /news, /blog linked to /pricing; /pricing
\* was fetched after /blog and before /news, which was queued before it
C21_Witness ==
    /\ strategy = "priority" /\ Len(fetches) = 4
    /\ fetches[2].url = SiteA(<<"/", "blog">>) /\ fetches[2].at = 1
    /\ fetches[3].url = SiteA(<<"/", "pricing">>) /\ fetches[3].at = 2
    /\ fetches[4].url = SiteA(<<"/", "news">>) /\ fetches[4].at = 1

\* C22: in BFS and in the priority loop, a fetch that fails takes only the
\* failed page off the queue, adds nothing to scraped_pages, leaves the pages
\* already collected in place and leaves the loop running; every fetch is for
\* the head of the queue, and the traversal returns only when the queue is
\* empty or the budget is spent.
C22_FailedFetchNotFatal ==
    /\ [][(strategy \in {"bfs", "priority"} /\ tpc = "loop" /\ fetches' # fetches) =>
            /\ LastFetch(fetches').url = Head(frontier).url
            /\ ~LastFetch(fetches').ok =>
                  /\ scraped_pages' = scraped_pages
                  /\ frontier' = Tail(frontier)
                  /\ tpc' = "loop"]_vars
    /\ []((strategy \in {"bfs", "priority"} /\ tpc = "returned" /\ frontier # <<>>) =>
            (max_pages # Unlimited /\ Len(scraped_pages) >= max_pages))

\* a BFS whose second fetch failed went on to fetch the candidate queued
\* behind it and returned the homepage and that page
C22_Witness ==
    /\ strategy = "bfs" /\ tpc = "returned" /\ Len(fetches) = 3
    /\ fetches[1].ok /\ ~fetches[2].ok /\ fetches[3].ok
    /\ scraped_pages = <<fetches[1].url, fetches[3].url>>

\* C26: every pop of the priority loop takes the head of the queue, no link
\* in the queue has a higher score, and every other queued link of the same
\* score was queued later.
C26_PopsHighestEarliest ==
    [][(strategy = "priority" /\ tpc = "loop" /\ fetches' # fetches) =>
        /\ LastFetch(fetches').url = Head(frontier).url
        /\ \A k \in 2..Len(frontier) :
              \/ frontier[k].score < Head(frontier).score
              \/ /\ frontier[k].score = Head(frontier).score
                 /\ frontier[k].seq > Head(frontier).seq]_vars

\* /blog was queued from the homepage, /news (same score) from /pricing, and
\* /blog was popped before /news
C26_Witness ==
    /\ strategy = "priority" /\ Len(fetches) = 4
    /\ fetches[2].url = SiteA(<<"/", "pricing">>)
    /\ fetches[3].url = SiteA(<<"/", "blog">>) /\ fetches[3].at = 1
    /\ fetches[4].url = SiteA(<<"/", "news">>) /\ fetches[4].at = 2
    /\ fetches[3].score = fetches[4].score

\* the fetch whose page carried the link that fetch k followed, and the
\* fetches that lead to fetch k
RECURSIVE LeadsTo(_, _)
LeadsTo(p, k) == IF k <= p THEN k = p ELSE LeadsTo(p, fetches[k].at)

\* C27: a DFS traversal with max_depth = 10 fetches no page at depth greater
\* than 10, a page is one level deeper than the page it was reached from, and
\* between the fetch of a page and the fetch of any page reached from it only
\* pages reached through that page are fetched (its links are explored to the
\* end before its next sibling is visited).
C27_DepthFirstToDepthCap ==
    strategy = "dfs" =>
        \A k \in 1..Len(fetches) :
            /\ fetches[k].depth <= MAX_DEPTH
            /\ fetches[k].at < k
            /\ fetches[k].at = 0 => fetches[k].depth = 0
            /\ fetches[k].at > 0 =>
                  /\ fetches[k].depth = fetches[fetches[k].at].depth + 1
                  /\ \A j \in (fetches[k].at)..k : LeadsTo(fetches[k].at, j)

\* an unlimited DFS fetched the homepage, one of its links, a link of that
\* page, and only then the second link of the homepage
C27_Witness ==
    /\ strategy = "dfs" /\ tpc = "returned" /\ Len(fetches) = 4
    /\ fetches[2].depth = 1 /\ fetches[3].depth = 2 /\ fetches[3].at = 2
    /\ fetches[4].depth = 1 /\ fetches[4].at = 1

\* C29 as stated: a page whose fetch raised a timeout or connection error is
\* requested again (up to 3 requests in all) before it counts as failed.
C29_TimeoutRetried ==
    tpc = "returned" =>
        \A i \in 1..Len(fetches) :
            fetches[i].error = "timeout" =>
                \E j \in (i + 1)..Len(fetches) : fetches[j].url = fetches[i].url

(***************************************************************************)
(* Part IX: extract_and_prioritize_links (query_scraper.py:525-575) on one *)
(* page of a.com that carries up to MaxAnchors anchors, in any order and   *)
(* with repetitions.  The anchors have absolute hrefs and no link text.    *)
(***************************************************************************)
MaxAnchors == 3   \* anchors of the page

\* "/blog", "/news", "/pricing", "/pricing/", "/Pricing", "/misc", "/login",
\* "/report.pdf", "/blog/2024/01/post", "/blog?page=2" on a.com and a page of
\* b.com
AnchorPool ==
    {SiteA(<<"/", "blog">>), SiteA(<<"/", "news">>), SiteA(<<"/", "pricing">>),
     SiteA(<<"/", "pricing", "/">>), SiteA(<<"/", "Pricing">>), SiteA(<<"/", "misc">>),
     SiteA(<<"/", "login">>), SiteA(<<"/", "report", ".pdf">>),
     SiteA(<<"/", "blog", "/", "2024", "/", "01", "/", "post">>),
     SiteA(<<"/", "blog", "?", "page", "=", "2">>), ChainUrl(1)}

InitExtract ==
    /\ xpc = "called"
    /\ x_url = SiteA(<<>>)
    /\ x_anchors \in SeqsUpTo(AnchorPool, MaxAnchors)
    /\ x_links = <<>>
    /\ IdleAux /\ IdleIngestion /\ IdleNorm /\ IdleScore /\ IdleChunk /\ IdleQuery /\ IdleSite /\ IdleText

\* lines 530-575
Extract ==
    /\ xpc = "called"
    /\ x_links' = SortByScore(KeepLinks(x_url, x_anchors, {}))
    /\ xpc' = "returned"
    /\ UNCHANGED <<x_url, x_anchors>>
    /\ UNCHANGED <<auxVars, pipeVars, lidVars, insVars, normVars, scoreVars, chunkVars, queryVars,
                   siteVars, textVars>>

NextExtract == Extract

SpecExtract == InitExtract /\ [][NextExtract]_vars

\* the disallow rules, read off the URL: a skipped path, a file extension, a
\* dated path or a page number
Disallowed(url) ==
    \/ \E i \in 1..Len(url) : Lower(url)[i] \in {"login", ".pdf", "2024", "page"}
    \/ \E sp \in skip_paths : Contains(Lower(url), sp)

\* the place of the first anchor with this href
FirstAnchor(href) == CHOOSE k \in 1..Len(x_anchors) :
    x_anchors[k] = href /\ \A h \in 1..(k - 1) : x_anchors[h] # href

\* C28: the list returned by extract_and_prioritize_links holds only hrefs of
\* anchors of the page, no two of them with the same normalized form, each
\* with a score above 0 and not disallowed, ordered by non-increasing score,
\* links of equal score in document order.
C28_LinksDistinctPositiveSorted ==
    xpc = "returned" =>
        /\ \A i \in 1..Len(x_links) :
              /\ \E k \in 1..Len(x_anchors) : x_anchors[k] = x_links[i].url
              /\ x_links[i].score > 0
              /\ x_links[i].score = ScoreUrlImportance(x_links[i].url, <<>>)
              /\ ~Disallowed(x_links[i].url)
        /\ \A i, j \in 1..Len(x_links) :
              i < j =>
                 /\ NormalizeUrl(x_links[i].url) # NormalizeUrl(x_links[j].url)
                 /\ x_links[i].score >= x_links[j].score
                 /\ x_links[i].score = x_links[j].score =>
                       FirstAnchor(x_links[i].url) < FirstAnchor(x_links[j].url)

\* the page carried /news, /login and /blog, in this order: /login was left
\* out and /news is returned before /blog, which scores the same
C28_Witness ==
    /\ xpc = "returned"
    /\ x_anchors = <<SiteA(<<"/", "news">>), SiteA(<<"/", "login">>), SiteA(<<"/", "blog">>)>>
    /\ x_links = <<Link(SiteA(<<"/", "news">>), 30), Link(SiteA(<<"/", "blog">>), 30)>>

(***************************************************************************)
(* Part X: _create_text_chunks (query_scraper.py:425-484) on the sections  *)
(* _extract_content_sections returns (374-423): headers, paragraphs and    *)
(* lists, each with at least one word.  The content of a section is        *)
(* written as the number of words of its text (a list: of each item); a    *)
(* chunk is written as the indices of the sections joined into it.         *)
(***************************************************************************)
MaxSections == 3   \* sections of the page

TARGET_WORDS_PER_CHUNK == 300
MAX_WORDS_PER_CHUNK == 500

SectionPool ==
    {[type |-> "header", content |-> <<1>>],
     [type |-> "paragraph", content |-> <<249>>],
     [type |-> "paragraph", content |-> <<250>>],
     [type |-> "paragraph", content |-> <<500>>],
     [type |-> "paragraph", content |-> <<600>>],
     [type |-> "list", content |-> <<250, 1>>]}

RECURSIVE SumSeq(_)
SumSeq(s) == IF s = <<>> THEN 0 ELSE Head(s) + SumSeq(Tail(s))

\* lines 447-461: word_count of a section
WordCount(section) ==
    IF section.type = "list" THEN SumSeq(section.content) ELSE section.content[1]

\* line 464
StartsNewChunkAtTarget(count, word_count) ==
    count > 0 /\ count + word_count > TARGET_WORDS_PER_CHUNK
StartsNewChunk(count, word_count) ==
    count > 0 /\ count + word_count > MAX_WORDS_PER_CHUNK

InitText ==
    /\ ppc = "called"
    /\ sections \in SeqsUpTo(SectionPool, MaxSections)
    /\ section_no = 0
    /\ text_chunks = <<>>
    /\ current_chunk = <<>>
    /\ current_word_count = 0
    /\ IdleAux /\ IdleIngestion /\ IdleNorm /\ IdleScore /\ IdleChunk /\ IdleQuery /\ IdleSite /\ IdleExtract

\* lines 430-439: no section, "No content extracted" is returned
TextBegin ==
    /\ ppc = "called"
    /\ ppc' = IF sections = <<>> THEN "returned" ELSE "loop"
    /\ UNCHANGED <<sections, section_no, text_chunks, current_chunk, current_word_count>>
    /\ UNCHANGED <<auxVars, pipeVars, lidVars, insVars, normVars, scoreVars, chunkVars, queryVars,
                   siteVars, extractVars>>

\* lines 441-476: one pass of the loop over sections
TextSection ==
    /\ ppc = "loop" /\ section_no < Len(sections)
    /\ section_no' = section_no + 1
    /\ LET word_count == WordCount(sections[section_no'])
       IN  IF StartsNewChunk(current_word_count, word_count)
           THEN /\ text_chunks' = Append(text_chunks, current_chunk)
                /\ current_chunk' = <<section_no'>>
                /\ current_word_count' = word_count
           ELSE /\ current_chunk' = Append(current_chunk, section_no')
                /\ current_word_count' = current_word_count + word_count
                /\ UNCHANGED text_chunks
    /\ UNCHANGED <<ppc, sections>>
    /\ UNCHANGED <<auxVars, pipeVars, lidVars, insVars, normVars, scoreVars, chunkVars, queryVars,
                   siteVars, extractVars>>

\* lines 478-484: the final chunk, and the return
TextFinish ==
    /\ ppc = "loop" /\ section_no = Len(sections)
    /\ text_chunks' = IF current_chunk # <<>> THEN Append(text_chunks, current_chunk)
                      ELSE text_chunks
    /\ ppc' = "returned"
    /\ UNCHANGED <<sections, section_no, current_chunk, current_word_count>>
    /\ UNCHANGED <<auxVars, pipeVars, lidVars, insVars, normVars, scoreVars, chunkVars, queryVars,
                   siteVars, extractVars>>

NextText == TextBegin \/ TextSection \/ TextFinish

SpecText == InitText /\ [][NextText]_vars

RECURSIVE Flatten(_)
Flatten(cs) == IF cs = <<>> THEN <<>> ELSE Head(cs) \o Flatten(Tail(cs))

\* the words of the sections with these indices
WordsOf(chunk) == SumSeq([i \in 1..Len(chunk) |-> WordCount(sections[chunk[i]])])

\* C30: when _create_text_chunks returns, the chunks taken one after the
\* other hold every section once, whole and in input order; a section follows
\* another in the same chunk only if the chunk with it has at most 500 words,
\* and it starts a new chunk only if the chunk before it, with it, would have
\* more than 500 words; so a chunk of more than one section has at most 500
\* words.
C30_SectionsWholeInOrder ==
    ppc = "returned" =>
        /\ Flatten(text_chunks) = [i \in 1..Len(sections) |-> i]
        /\ \A c \in 1..Len(text_chunks) :
              /\ text_chunks[c] # <<>>
              /\ \A n \in 2..Len(text_chunks[c]) :
                    WordsOf(SubSeq(text_chunks[c], 1, n)) <= MAX_WORDS_PER_CHUNK
              /\ c > 1 => WordsOf(text_chunks[c - 1]) + WordsOf(<<text_chunks[c][1]>>)
                             > MAX_WORDS_PER_CHUNK
              /\ Len(text_chunks[c]) > 1 => WordsOf(text_chunks[c]) <= MAX_WORDS_PER_CHUNK

\* two paragraphs of 250 words share a chunk of exactly 500 words and the
\* header after them starts the next chunk
C30_Witness ==
    /\ ppc = "returned"
    /\ sections = <<[type |-> "paragraph", content |-> <<250>>],
                    [type |-> "paragraph", content |-> <<250>>],
                    [type |-> "header", content |-> <<1>>]>>
    /\ text_chunks = <<<<1, 2>>, <<3>>>>

(***************************************************************************)
(* Further properties of the pipeline (Part I).                            *)
(***************************************************************************)
\* C33: wait_for_embed_then_query is past its join, and so at or past the
\* call of trigger_query_controller, only when the EmbedRunner thread of the
\* request has ended or 120 seconds have passed in the join.
C33_NotifyAfterIngestion ==
    \A r \in Requests :
        wpc[r] \in {"joined", "notify", "no_notify"} =>
            (cpc[r] = "exited" \/ elapsed[r] >= JOIN_TIMEOUT)

\* the consumer handled both results and ended before any time passed, and
\* the notification goes out
C33_Witness ==
    /\ wpc[1] = "notify"
    /\ cpc[1] = "exited"
    /\ elapsed[1] = 0
    /\ Len(log[1]) = 2

\* main.py:110-114 again: embed_single_entry raises after k chunks were
\* inserted, in model.encode of the chunk after them, which is outside the
\* try (generate_embeddings.py:124), or in the write of _update_last_id
\* (223-225); the item is counted as failed and the count of inserted
\* chunks is lost with the call
EmbedRaiseLate(r) ==
    /\ cpc[r] = "embed"
    /\ \E k \in 1..MaxChunks :
          log' = [log EXCEPT ![r] =
                     Append(@, LogEntry(cur[r], website_id[r], "embed_raise", k, k))]
    /\ counter' = [counter EXCEPT ![r] = Bump(@, "failed", 1)]
    /\ cur' = [cur EXCEPT ![r] = NoItem]
    /\ snap' = [snap EXCEPT ![r] = NoFile]
    /\ website_id' = [website_id EXCEPT ![r] = 0]
    /\ cpc' = [cpc EXCEPT ![r] = "get"]
    /\ UNCHANGED <<hpc, work_queue, nresults, nput, k_json, last_id_file, last_id0, wpc, elapsed>>
    /\ UNCHANGED <<lidVars, insVars, crawlerVars, auxVars>>

\* the pipeline with both ways of raising
NextLate == Next \/ \E r \in Requests : EmbedRaiseLate(r)

SpecLate == Init /\ [][NextLate]_vars

\* the chunk insertions answered with 201, over the finished results
InsertedChunks(r) == SumSeq([k \in 1..Len(log[r]) |-> log[r][k].inserted])

\* C35 as stated: when the consumer has ended, saved + failed is the number
\* of results put on the queue and chunks is the number of chunk insertions
\* answered with 201.
C35_CountersAccount ==
    \A r \in Requests :
        cpc[r] = "exited" =>
            /\ counter[r].saved + counter[r].failed = nput[r]
            /\ counter[r].chunks = InsertedChunks(r)

\* C36 as stated: the identifier handed to embed_single_entry is not the
\* identifier of an entry the corpus held before the append of the item.
C36_IdOfCreatedEntry ==
    \A r \in Requests :
        cpc[r] = "embed" =>
            website_id[r] \notin {snap[r].data[i].id : i \in 1..Len(snap[r].data)}

\* C38 as stated: the marker has reached the identifier of an entry only if
\* every chunk of the entry was inserted.
C38_MarkerOnlyAfterAllChunks ==
    \A r \in Requests : \A k \in 1..Len(log[r]) :
        (log[r][k].outcome = "embedded" /\ log[r][k].inserted < log[r][k].nchunks) =>
            last_id_file < log[r][k].wid

\* C39 as stated: a run for which a result was put on the queue is not left
\* without notification.
C39_EnqueuedThenNotified ==
    \A r \in Requests : wpc[r] = "no_notify" => nput[r] = 0

(***************************************************************************)
(* Part XI: _extract_content_sections (query_scraper.py:374-423).  An      *)
(* element of the page is written as its tag and a size: for a header and  *)
(* a paragraph the number of characters of its stripped text, for a list   *)
(* the number of its items with text.                                      *)
(***************************************************************************)
MaxElements == 2   \* elements find_all returns

ElementPool ==
    {[tag |-> "h2", size |-> 2], [tag |-> "h2", size |-> 3],
     [tag |-> "p", size |-> 0], [tag |-> "p", size |-> 19],
     [tag |-> "p", size |-> 20], [tag |-> "p", size |-> 21],
     [tag |-> "ul", size |-> 0], [tag |-> "ul", size |-> 1],
     [tag |-> "div", size |-> 0]}

\* line 389: header_text and len(header_text) > 2
KeepsHeader(size) == size > 2
\* line 402: para_text and len(para_text) > 20
KeepsParagraph(size) == size > 20
\* line 417: if list_items
KeepsList(size) == size > 0

InitSect ==
    /\ epc = "loop"
    /\ elements \in SeqsUpTo(ElementPool, MaxElements)
    /\ element_no = 0
    /\ page_sections = <<>>
    /\ current_header = 0
    /\ IdleIngestion /\ IdleCrawler
    /\ IdleEntry /\ IdleTrig /\ IdleCorpus /\ IdleHandler

\* lines 383-421: one pass of the loop over the elements
ExtractElement ==
    /\ epc = "loop" /\ element_no < Len(elements)
    /\ element_no' = element_no + 1
    /\ LET child == elements[element_no']
           Section(type, header) ==
               [type |-> type, element |-> element_no', header |-> header]
       IN  CASE child.tag = "h2" /\ KeepsHeader(child.size) ->
                    /\ current_header' = element_no'
                    /\ page_sections' = Append(page_sections, Section("header", element_no'))
             [] child.tag = "p" /\ KeepsParagraph(child.size) ->
                    /\ page_sections' = Append(page_sections, Section("paragraph", current_header))
                    /\ UNCHANGED current_header
             [] child.tag = "ul" /\ KeepsList(child.size) ->
                    /\ page_sections' = Append(page_sections, Section("list", current_header))
                    /\ UNCHANGED current_header
             [] OTHER -> UNCHANGED <<page_sections, current_header>>
    /\ UNCHANGED <<epc, elements>>
    /\ UNCHANGED <<pipeVars, lidVars, insVars, crawlerVars,
                   entryVars, trigVars, corpusVars, handlerVars>>

\* line 423
ExtractSectionsReturn ==
    /\ epc = "loop" /\ element_no = Len(elements)
    /\ epc' = "returned"
    /\ UNCHANGED <<elements, element_no, page_sections, current_header>>
    /\ UNCHANGED <<pipeVars, lidVars, insVars, crawlerVars,
                   entryVars, trigVars, corpusVars, handlerVars>>

NextSect == ExtractElement \/ ExtractSectionsReturn

SpecSect == InitSect /\ [][NextSect]_vars

\* C31 as stated: a paragraph has a section if and only if its text has at
\* least 20 characters.
C31_ParagraphKeptFrom20 ==
    epc = "returned" =>
        \A i \in 1..Len(elements) :
            elements[i].tag = "p" =>
                ((\E s \in 1..Len(page_sections) :
                      page_sections[s].element = i /\ page_sections[s].type = "paragraph")
                 <=> elements[i].size >= 20)

(***************************************************************************)
(* Part XII: embed_single_entry (generate_embeddings.py:179-217) with      *)
(* should_skip_text (100-105).  plain_text is written as its number of     *)
(* words and whether it contains "No pages could be crawled"; the retry    *)
(* loop of one chunk (Part III) is taken in one step.                      *)
(***************************************************************************)
MaxEntryWords == 160   \* words of plain_text, besides one text of two chunks

MIN_WORDS == 150
PLACEHOLDER_WORDS == 5

EntryTexts ==
    {[words |-> w, placeholder |-> b] :
        w \in (0..MaxEntryWords) \cup {CHUNK_SIZE + 1}, b \in BOOLEAN} \
    {[words |-> w, placeholder |-> TRUE] : w \in 0..(PLACEHOLDER_WORDS - 1)}

\* lines 100-105
ShouldSkipTextUpTo150(text) ==
    text.words = 0 \/ text.words <= MIN_WORDS \/ text.placeholder
ShouldSkipText(text) ==
    text.words = 0 \/ text.words < MIN_WORDS \/ text.placeholder

\* len(split_into_chunks(plain_text, CHUNK_SIZE)) for a text of w words
\* whose slices so far end before the one starting at word from
RECURSIVE ChunksFrom(_, _)
ChunksFrom(from, w) ==
    IF from >= w THEN 0
    ELSE IF from + CHUNK_SIZE >= w THEN 1
    ELSE 1 + ChunksFrom(from + Step, w)

\* lines 134-171: what the retry loop of one chunk can come to, as the
\* number of POSTs and whether one of them was answered with 201
ChunkOutcomes ==
    {[posts |-> n, ok |-> TRUE] : n \in 1..LastAttempt} \cup
    {[posts |-> 1, ok |-> FALSE], [posts |-> LastAttempt, ok |-> FALSE]}

InitEntry ==
    /\ gpc = "called"
    /\ entry \in EntryTexts
    /\ entry_chunk = 0
    /\ entry_posts = 0
    /\ entry_inserted = 0
    /\ entry_result = -1
    /\ entry_marked = FALSE
    /\ IdleIngestion /\ IdleCrawler
    /\ IdleSect /\ IdleTrig /\ IdleCorpus /\ IdleHandler

\* lines 196-202
EntryDecide ==
    /\ gpc = "called"
    /\ IF ShouldSkipText(entry)
       THEN gpc' = "returned" /\ entry_result' = 0
       ELSE gpc' = "insert" /\ UNCHANGED entry_result
    /\ UNCHANGED <<entry, entry_chunk, entry_posts, entry_inserted, entry_marked>>
    /\ UNCHANGED <<pipeVars, lidVars, insVars, crawlerVars,
                   sectVars, trigVars, corpusVars, handlerVars>>

\* lines 120-171: one chunk; model.encode (124) is outside the try and may
\* raise out of embed_single_entry
EntryChunk ==
    /\ gpc = "insert" /\ entry_chunk < ChunksFrom(0, entry.words)
    /\ \/ /\ gpc' = "raised"
          /\ UNCHANGED <<entry_chunk, entry_posts, entry_inserted>>
       \/ \E o \in ChunkOutcomes :
             /\ entry_chunk' = entry_chunk + 1
             /\ entry_posts' = entry_posts + o.posts
             /\ entry_inserted' = entry_inserted + (IF o.ok THEN 1 ELSE 0)
             /\ UNCHANGED gpc
    /\ UNCHANGED <<entry, entry_result, entry_marked>>
    /\ UNCHANGED <<pipeVars, lidVars, insVars, crawlerVars,
                   sectVars, trigVars, corpusVars, handlerVars>>

\* lines 212-217
EntryReturn ==
    /\ gpc = "insert" /\ entry_chunk = ChunksFrom(0, entry.words)
    /\ entry_marked' = TRUE
    /\ entry_result' = entry_inserted
    /\ gpc' = "returned"
    /\ UNCHANGED <<entry, entry_chunk, entry_posts, entry_inserted>>
    /\ UNCHANGED <<pipeVars, lidVars, insVars, crawlerVars,
                   sectVars, trigVars, corpusVars, handlerVars>>

NextEntry == EntryDecide \/ EntryChunk \/ EntryReturn

SpecEntry == InitEntry /\ [][NextEntry]_vars

\* C32: for a text of fewer than 150 words or with the placeholder,
\* embed_single_entry issues no POST at any time and returns 0; for any other
\* text, and so for one of exactly 150 words without the placeholder, a call
\* that returns has gone through every chunk of the text, of which there is
\* at least one, and has issued at least one POST for each.
C32_EmbedsFrom150Words ==
    IF entry.words < 150 \/ entry.placeholder
    THEN /\ entry_posts = 0 /\ entry_chunk = 0
         /\ gpc \in {"called", "returned"}
         /\ gpc = "returned" => entry_result = 0
    ELSE gpc = "returned" =>
            /\ entry_chunk = ChunksFrom(0, entry.words)
            /\ entry_chunk >= 1
            /\ entry_posts >= entry_chunk
            /\ entry_result = entry_inserted

\* a text of exactly 150 words without the placeholder was inserted as one
\* chunk with one POST
C32_Witness ==
    /\ gpc = "returned"
    /\ entry = [words |-> 150, placeholder |-> FALSE]
    /\ entry_posts = 1
    /\ entry_result = 1

(***************************************************************************)
(* Part XIII: trigger_query_controller(query, session_id, retries = 2),    *)
(* main.py:307-355.                                                        *)
(***************************************************************************)
RETRIES == 2

\* what one client.post and the statements on its response come to:
\*   "ok_200"      status 200, response.json() is an object whose "answer",
\*                 if there is one, is a string
\*   "bad_200"     status 200 with any other body: response.json(),
\*                 result.get or len(answer) raises
\*   "below_500"   a status other than 200 and below 500
\*   "status_5xx"  a status of 500 or more
\*   "connect_error", "timeout", "error"   the three except clauses
PostOutcomes ==
    {"ok_200", "bad_200", "below_500", "status_5xx", "connect_error", "timeout", "error"}

\* lines 321-333: the outcomes after which the function returns
Returns(outcome) == outcome \in {"ok_200", "below_500"}

Posted(n, outcome) == [kind |-> "post", attempt |-> n, outcome |-> outcome, wait |-> 0]
Slept(n, wait) == [kind |-> "sleep", attempt |-> n, outcome |-> "none", wait |-> wait]

InitTrig ==
    /\ rpc = "post"
    /\ t_attempt = 1
    /\ t_log = <<>>
    /\ IdleIngestion /\ IdleCrawler
    /\ IdleSect /\ IdleEntry /\ IdleCorpus /\ IdleHandler

\* lines 309-344: one attempt
TriggerPost ==
    /\ rpc = "post"
    /\ \E outcome \in PostOutcomes :
          /\ t_log' = Append(t_log, Posted(t_attempt, outcome))
          /\ rpc' = IF Returns(outcome) THEN "returned" ELSE "backoff"
    /\ UNCHANGED t_attempt
    /\ UNCHANGED <<pipeVars, lidVars, insVars, crawlerVars,
                   sectVars, entryVars, corpusVars, handlerVars>>

\* lines 346-353: the wait before the next attempt, or the end of the loop
TriggerBackoff ==
    /\ rpc = "backoff"
    /\ IF t_attempt <= RETRIES
       THEN /\ t_log' = Append(t_log, Slept(t_attempt, 2 * t_attempt))
            /\ t_attempt' = t_attempt + 1
            /\ rpc' = "post"
       ELSE /\ rpc' = "failed"
            /\ UNCHANGED <<t_log, t_attempt>>
    /\ UNCHANGED <<pipeVars, lidVars, insVars, crawlerVars,
                   sectVars, entryVars, corpusVars, handlerVars>>

NextTrig == TriggerPost \/ TriggerBackoff

SpecTrig == InitTrig /\ [][NextTrig]_vars

PostsOf(l) == SelectSeq(l, LAMBDA x : x.kind = "post")
SleepsOf(l) == SelectSeq(l, LAMBDA x : x.kind = "sleep")

\* C34 as stated: at most 3 POSTs; no POST after one answered with status
\* 200 or with a 4xx status; a POST answered with a 5xx status, a connect
\* error or a timeout is followed by another one unless it was the third;
\* the waits are 2 s and then 4 s; nothing follows the third POST.
C34_AttemptsAndBackoff ==
    LET ps == PostsOf(t_log)
        ss == SleepsOf(t_log)
    IN  /\ Len(ps) <= RETRIES + 1
        /\ \A i \in 1..(Len(t_log) - 1) :
              t_log[i].kind = "post" =>
                 t_log[i].outcome \notin {"ok_200", "bad_200", "below_500"}
        /\ rpc \in {"returned", "failed"} =>
              \A i \in 1..Len(ps) :
                 (ps[i].outcome \in {"status_5xx", "connect_error", "timeout"}
                     /\ i < RETRIES + 1) => i < Len(ps)
        /\ \A i \in 1..Len(ss) : ss[i].wait = 2 * i
        /\ Len(ss) <= RETRIES
        /\ Len(ps) = RETRIES + 1 => Last(t_log).kind = "post"

(***************************************************************************)
(* Part XIV: JSONHandler.export_to_json (excel_handler.py:237-324) and     *)
(* append_to_json (326-415) called with lists of results on the corpus     *)
(* file, which is missing at first.  URLs and entries are those of Part I. *)
(***************************************************************************)
MaxResults == 2       \* results of one call
MaxCorpusCalls == 2   \* calls on the file

\* the links of the results: those of Part I and "http://a.com"
LinkPool == URLS \cup {Url("a", FALSE, FALSE)}

ResultLists == SeqsUpTo(LinkPool, MaxResults) \ {<<>>}

\* export_to_json on a missing file, lines 266-307: the results are numbered
\* from 1 in their order, all of them
ExportResults(new_results) ==
    [i \in 1..Len(new_results) |-> [url |-> new_results[i], id |-> i]]

\* append_to_json, lines 349-397: the loop over new_results
RECURSIVE AppendResults(_, _)
AppendResults(data, new_results) ==
    IF new_results = <<>> THEN data
    ELSE AppendResults(AppendToJson(data, Head(new_results)), Tail(new_results))

\* what either function leaves in the file: each calls the other when the
\* file is not in the state it is written for (lines 260-262 and 337-340)
Written(file, new_results) ==
    IF file.exists THEN File(AppendResults(file.data, new_results))
    ELSE File(ExportResults(new_results))

InitCorpus ==
    /\ corpus = NoFile
    /\ corpus_prev = NoFile
    /\ corpus_call = [op |-> "none", results |-> <<>>]
    /\ corpus_calls = 0
    /\ IdleIngestion /\ IdleCrawler
    /\ IdleSect /\ IdleEntry /\ IdleTrig /\ IdleHandler

CorpusCall(op) ==
    /\ corpus_calls < MaxCorpusCalls
    /\ \E new_results \in ResultLists :
          /\ corpus' = Written(corpus, new_results)
          /\ corpus_call' = [op |-> op, results |-> new_results]
    /\ corpus_prev' = corpus
    /\ corpus_calls' = corpus_calls + 1
    /\ UNCHANGED <<pipeVars, lidVars, insVars, crawlerVars,
                   sectVars, entryVars, trigVars, handlerVars>>

ExportCall == CorpusCall("export_to_json")
AppendCall == CorpusCall("append_to_json")

NextCorpus == ExportCall \/ AppendCall

SpecCorpus == InitCorpus /\ [][NextCorpus]_vars

\* C37 as stated: after any calls the ids of the entries are pairwise
\* distinct, no two entries have the same normalized link, and a call on an
\* existing file leaves the old entries as they were and gives every new
\* entry an id above all the old ones.
C37_CorpusWellFormed ==
    LET data == corpus.data
        old == corpus_prev.data
    IN  /\ \A i, j \in 1..Len(data) :
              i # j => /\ data[i].id # data[j].id
                       /\ HandlerNormalize(data[i].url) # HandlerNormalize(data[j].url)
        /\ Len(old) <= Len(data)
        /\ SubSeq(data, 1, Len(old)) = old
        /\ \A i \in (Len(old) + 1)..Len(data) : data[i].id > MaxIdOf(old)

(***************************************************************************)
(* Part XV: the /scrape handler (main.py:126-217) from the request to the  *)
(* construction of EnhancedQueryScraper (query_scraper.py:28-50).  The     *)
(* query is a sequence of characters, " " or "x".                          *)
(***************************************************************************)
MaxQueryLen == 4   \* characters of request.query

\* query_scraper.py:28-35: the parameters of EnhancedQueryScraper.__init__,
\* which takes no **kwargs
ConstructorParameters ==
    {"scraping_depth", "max_subpages_per_site", "crawl_method", "use_playwright",
     "playwright_timeout"}

\* main.py:146-151: the keyword arguments of the call
KeywordArguments ==
    {"scraping_depth", "max_subpages_per_site", "crawl_method", "max_workers"}

\* a call with a keyword the function does not have raises TypeError
RaisesTypeError(keywords, parameters) == ~(keywords \subseteq parameters)

\* str.strip()
RECURSIVE LStrip(_)
LStrip(s) == IF s # <<>> /\ Head(s) = " " THEN LStrip(Tail(s)) ELSE s
RECURSIVE Strip(_)
Strip(s) ==
    IF s # <<>> /\ Last(s) = " " THEN Strip(SubSeq(s, 1, Len(s) - 1)) ELSE LStrip(s)

InitHandler ==
    /\ apc = "called"
    /\ a_query \in SeqsUpTo({" ", "x"}, MaxQueryLen)
    /\ a_file \in BOOLEAN
    /\ a_response = "none"
    /\ a_reached = {}
    /\ IdleIngestion /\ IdleCrawler
    /\ IdleSect /\ IdleEntry /\ IdleTrig /\ IdleCorpus

\* lines 129-131: query = request.query.strip(); an empty query is answered
\* at once
ScrapeBegin ==
    /\ apc = "called"
    /\ IF Strip(a_query) = <<>>
       THEN apc' = "returned" /\ a_response' = "Query is required"
       ELSE apc' = "read" /\ UNCHANGED a_response
    /\ UNCHANGED <<a_query, a_file, a_reached>>
    /\ UNCHANGED <<pipeVars, lidVars, insVars, crawlerVars,
                   sectVars, entryVars, trigVars, corpusVars>>

\* lines 133-143: session id, JSONHandler, already_scraped and the counters
ScrapeReadSeen ==
    /\ apc = "read"
    /\ a_reached' = a_reached \cup
                      (IF a_file THEN {"read_scraped_urls"} ELSE {})
    /\ apc' = "construct"
    /\ UNCHANGED <<a_query, a_file, a_response>>
    /\ UNCHANGED <<pipeVars, lidVars, insVars, crawlerVars,
                   sectVars, entryVars, trigVars, corpusVars>>

\* lines 145-151, with the except clause of 214-217 when the call raises
ScrapeConstruct ==
    /\ apc = "construct"
    /\ IF RaisesTypeError(KeywordArguments, ConstructorParameters)
       THEN /\ apc' = "returned"
            /\ a_response' = "error"
            /\ a_reached' = a_reached \cup {"except"}
       ELSE /\ apc' = "process_query"
            /\ a_reached' = a_reached \cup {"process_query"}
            /\ UNCHANGED a_response
    /\ UNCHANGED <<a_query, a_file>>
    /\ UNCHANGED <<pipeVars, lidVars, insVars, crawlerVars,
                   sectVars, entryVars, trigVars, corpusVars>>

NextHandler == ScrapeBegin \/ ScrapeReadSeen \/ ScrapeConstruct

SpecHandler == InitHandler /\ [][NextHandler]_vars

\* C40 as stated: for a query that is not empty, the handler does not return
\* without having called process_query, and the construction of the scraper
\* gives no error value.
C40_QueryReachesCrawl ==
    (Strip(a_query) # <<>> /\ apc = "returned") =>
        /\ "process_query" \in a_reached
        /\ a_response # "error"

====
